---------------------------- MODULE Spec2Model ----------------------------
(***************************************************************************)
(* The rule-based scoring engine of WebSummarizer (class SeoAnalyzer in    *)
(* server/services/seo-analyzer.ts) as a state machine: a caller holds one *)
(* WebsiteData record, calls a scorer on it and keeps what the scorer      *)
(* returned.  JavaScript strings are TLA+ strings, read character by       *)
(* character with Len and SubSeq, so that String.prototype.length,         *)
(* includes, toLowerCase and the template literals are computed as the     *)
(* code computes them.                                                     *)
(***************************************************************************)
EXTENDS Integers, Sequences, FiniteSets, TLC

VARIABLES
    data,   \* the WebsiteData the caller passes to the scorers
    year,   \* what new Date().getFullYear() returns at this moment
    call,   \* the last completed call: [fn, arg, threw, res], or NoCall
    again,  \* <<the completion of repeating that call>>, or <<>>
    reports,    \* MemStorage.reports: the entries of the Map, in insertion order
    currentId,  \* MemStorage.currentId
    requests    \* the HTTP requests: how far the handler of each has come

vars == <<data, year, call, again, reports, currentId, requests>>

\* The state of the HTTP server: the storage and the requests.
serverVars == <<reports, currentId, requests>>

-----------------------------------------------------------------------------
(* Bounds of the model.                                                    *)

MaxHeadings == 2
MaxImages == 2
MaxFragments == 2
MaxParagraphs == 2
\* The HTTP requests the server receives.
MaxRequests == 2
\* The years the clock shows.
FirstYear == 2025
LastYear == 2026

-----------------------------------------------------------------------------
(* JavaScript values.                                                      *)

\* An optional field of an object literal: absent, or present with a value.
None == <<>>
Some(v) == <<v>>

Min(a, b) == IF a < b THEN a ELSE b
Max(a, b) == IF a > b THEN a ELSE b

\* Array.prototype.join(sep) on an array of strings
RECURSIVE join(_, _)
join(seq, sep) ==
    IF seq = <<>> THEN ""
    ELSE IF Len(seq) = 1 THEN seq[1]
    ELSE seq[1] \o sep \o join(Tail(seq), sep)

\* The string of n copies of the character c.
RECURSIVE Rep(_, _)
Rep(c, n) ==
    IF n = 0 THEN ""
    ELSE IF n % 2 = 0 THEN LET half == Rep(c, n \div 2) IN half \o half
    ELSE c \o Rep(c, n - 1)

\* All sequences over S of length at most n.
RECURSIVE SeqsUpTo(_, _)
SeqsUpTo(S, n) ==
    IF n = 0 THEN {<<>>}
    ELSE LET shorter == SeqsUpTo(S, n - 1)
         IN  shorter \cup {Append(s, x) : s \in {t \in shorter : Len(t) = n - 1}, x \in S}


\* The character of s at position i (1-based), as a one-character string.
At(s, i) == SubSeq(s, i, i)

\* String.prototype.includes
includes(s, needle) ==
    \E i \in 0..(Len(s) - Len(needle)) : SubSeq(s, i + 1, i + Len(needle)) = needle

UpperCase == "ABCDEFGHIJKLMNOPQRSTUVWXYZ"
LowerCase == "abcdefghijklmnopqrstuvwxyz"
Digits == "0123456789"

CharsOf(s) == {At(s, i) : i \in 1..Len(s)}
UpperChars == CharsOf(UpperCase)
LowerChars == CharsOf(LowerCase)
DigitChars == CharsOf(Digits)
\* The regular-expression class \w
WordChars == UpperChars \cup LowerChars \cup DigitChars \cup {"_"}

isUpper(c) == c \in UpperChars
isLower(c) == c \in LowerChars
isDigit(c) == c \in DigitChars
isWord(c) == c \in WordChars

LowerOf ==
    [c \in UpperChars |->
        At(LowerCase, CHOOSE i \in 1..Len(UpperCase) : At(UpperCase, i) = c)]

lowerChar(c) == IF isUpper(c) THEN LowerOf[c] ELSE c

\* String.prototype.toLowerCase, character by character.
RECURSIVE toLowerCase(_)
toLowerCase(s) ==
    IF s = "" THEN ""
    ELSE IF Len(s) = 1 THEN lowerChar(s)
    ELSE LET half == Len(s) \div 2
         IN  toLowerCase(SubSeq(s, 1, half)) \o toLowerCase(SubSeq(s, half + 1, Len(s)))



\* String.prototype.startsWith
startsWith(s, prefix) == Len(prefix) <= Len(s) /\ SubSeq(s, 1, Len(prefix)) = prefix

\* The first position at which needle occurs in s, 0 when it does not.
indexOf(s, needle) ==
    IF includes(s, needle)
    THEN 1 + CHOOSE i \in 0..(Len(s) - Len(needle)) :
                /\ SubSeq(s, i + 1, i + Len(needle)) = needle
                /\ \A j \in 0..(i - 1) : SubSeq(s, j + 1, j + Len(needle)) # needle
    ELSE 0

\* String.prototype.split with a non-empty separator: the pieces between
\* its occurrences, found from left to right.
RECURSIVE split(_, _)
split(s, sep) ==
    LET at == indexOf(s, sep) IN
    IF at = 0 THEN <<s>>
    ELSE <<SubSeq(s, 1, at - 1)>> \o split(SubSeq(s, at + Len(sep), Len(s)), sep)

\* The regular-expression class \s and the line terminators before which
\* and after which ^ and $ match under the m flag.
SpaceChars == {" ", "\n", "\t", "\r", "\f"}
LineTerminators == {"\n", "\r"}
isSpace(c) == c \in SpaceChars

\* String.prototype.trim
trim(s) ==
    IF \A i \in 1..Len(s) : isSpace(At(s, i)) THEN ""
    ELSE LET first == CHOOSE i \in 1..Len(s) :
                          ~isSpace(At(s, i)) /\ \A j \in 1..(i - 1) : isSpace(At(s, j))
             last == CHOOSE i \in 1..Len(s) :
                          ~isSpace(At(s, i)) /\ \A j \in (i + 1)..Len(s) : isSpace(At(s, j))
         IN  SubSeq(s, first, last)

\* The positions at which ^ matches under the m flag.
isLineStart(s, i) == i = 1 \/ At(s, i - 1) \in LineTerminators

\* content.match(/^\s*[-\*\+]/m) is not null
matchesBulletLine(s) ==
    \E p \in 1..Len(s) :
        /\ isLineStart(s, p)
        /\ \E q \in p..Len(s) :
              /\ \A j \in p..(q - 1) : isSpace(At(s, j))
              /\ At(s, q) \in {"-", "*", "+"}

\* content.match(/^\s*\d+\./m) is not null
matchesNumberedLine(s) ==
    \E p \in 1..Len(s) :
        /\ isLineStart(s, p)
        /\ \E q \in p..Len(s) :
              /\ \A j \in p..(q - 1) : isSpace(At(s, j))
              /\ \E r \in q..(Len(s) - 1) :
                    /\ \A j \in q..r : isDigit(At(s, j))
                    /\ At(s, r + 1) = "."

\* content.match(/\d+%/), content.match(/\$\d+/), content.match(/\d+,\d+/)
matchesPercent(s) == \E i \in 1..(Len(s) - 1) : isDigit(At(s, i)) /\ At(s, i + 1) = "%"
matchesDollar(s) == \E i \in 1..(Len(s) - 1) : At(s, i) = "$" /\ isDigit(At(s, i + 1))
matchesThousands(s) ==
    \E i \in 1..(Len(s) - 2) :
        isDigit(At(s, i)) /\ At(s, i + 1) = "," /\ isDigit(At(s, i + 2))

\* The maximal runs of word characters of s that are at least ten long,
\* given by the positions where they start.
complexWordStarts(s) ==
    {i \in 1..(Len(s) - 9) :
        /\ i = 1 \/ ~isWord(At(s, i - 1))
        /\ \A j \in i..(i + 9) : isWord(At(s, j))}

wordRunEnd(s, i) ==
    CHOOSE e \in i..Len(s) :
        /\ \A j \in i..e : isWord(At(s, j))
        /\ e = Len(s) \/ ~isWord(At(s, e + 1))

RECURSIVE wordRunsFrom(_, _)
wordRunsFrom(s, starts) ==
    IF starts = {} THEN <<>>
    ELSE LET i == CHOOSE x \in starts : \A y \in starts : x <= y
         IN  <<SubSeq(s, i, wordRunEnd(s, i))>> \o wordRunsFrom(s, starts \ {i})

\* s.match(/\w{10,}/g): null (None) without a match, else the array of the
\* matches; the greedy match takes a whole run.
matchComplexWords(s) ==
    LET runs == wordRunsFrom(s, complexWordStarts(s))
    IN  IF runs = <<>> THEN None ELSE Some(runs)

\* The character U+2022 (a bullet) of the source's string literals; the
\* module is ASCII, and no pattern of the code reads "~".
Bullet == "~"

\* A JavaScript number that is the quotient of two non-negative integers:
\* x / 0 is Infinity or NaN, and neither is less than any finite number.
quotientLess(num, den, k) == den # 0 /\ num < k * den

-----------------------------------------------------------------------------
(* analyzeTraditionalSeo: six rule groups, each with the findings it pushes *)
(* (none or one) and what it adds to score.                                *)

maxScore == 100

Finding(type, title, description, details, metrics) ==
    [type |-> type, title |-> title, description |-> description,
     details |-> details, metrics |-> metrics]

\* titleRule with a penalty for a missing title (score -= 10).
titleRule_penalty(d) ==
    IF d.title = "" THEN
        [results |-> <<Finding("error", "Missing title tag",
            "The page is missing a title tag, which is crucial for SEO.",
            None, None)>>,
         pts |-> -10]
    ELSE [results |-> <<Finding("success", "Title tag length optimal",
            "Title tag length is within the recommended range.", None, None)>>,
          pts |-> 20]

\* titleRule with both length tests off by one (<= 30, >= 60).
titleRule_offByOne(d) ==
    IF d.title = "" THEN
        [results |-> <<Finding("error", "Missing title tag",
            "The page is missing a title tag, which is crucial for SEO.",
            None, None)>>,
         pts |-> 0]
    ELSE IF Len(d.title) <= 30 THEN
        [results |-> <<Finding("warning", "Title tag too short",
            "Title tag should be between 30-60 characters for optimal SEO.",
            Some("Current: \"" \o d.title \o "\""), None)>>,
         pts |-> 10]
    ELSE IF Len(d.title) >= 60 THEN
        [results |-> <<Finding("warning", "Title tag too long",
            "Title tag may be truncated in search results.",
            Some("Current length: " \o ToString(Len(d.title)) \o " characters"), None)>>,
         pts |-> 10]
    ELSE
        [results |-> <<Finding("success", "Title tag length optimal",
            "Title tag length is within the recommended range.",
            Some("Length: " \o ToString(Len(d.title)) \o " characters"), None)>>,
         pts |-> 20]

titleRule(d) ==
    IF d.title = "" THEN
        [results |-> <<Finding("error", "Missing title tag",
            "The page is missing a title tag, which is crucial for SEO.",
            None, None)>>,
         pts |-> 0]
    ELSE IF Len(d.title) < 30 THEN
        [results |-> <<Finding("warning", "Title tag too short",
            "Title tag should be between 30-60 characters for optimal SEO.",
            Some("Current: \"" \o d.title \o "\""), None)>>,
         pts |-> 10]
    ELSE IF Len(d.title) > 60 THEN
        [results |-> <<Finding("warning", "Title tag too long",
            "Title tag may be truncated in search results.",
            Some("Current length: " \o ToString(Len(d.title)) \o " characters"), None)>>,
         pts |-> 10]
    ELSE
        [results |-> <<Finding("success", "Title tag length optimal",
            "Title tag length is within the recommended range.",
            Some("Length: " \o ToString(Len(d.title)) \o " characters"), None)>>,
         pts |-> 20]

\* metaDescriptionRule whose upper test is >= 160 instead of > 160.
metaDescriptionRule_offByOne(d) ==
    IF d.metaDescription = "" THEN
        [results |-> <<Finding("error", "Missing meta description",
            "Meta description is missing, which affects click-through rates.",
            None, None)>>,
         pts |-> 0]
    ELSE IF Len(d.metaDescription) < 120 THEN
        [results |-> <<Finding("warning", "Meta description too short",
            "Meta description should be 120-160 characters for best results.",
            Some("Current length: " \o ToString(Len(d.metaDescription)) \o " characters"),
            None)>>,
         pts |-> 10]
    ELSE IF Len(d.metaDescription) >= 160 THEN
        [results |-> <<Finding("warning", "Meta description too long",
            "Meta description may be truncated in search results.",
            Some("Current length: " \o ToString(Len(d.metaDescription)) \o " characters"),
            None)>>,
         pts |-> 10]
    ELSE
        [results |-> <<Finding("success", "Meta description length optimal",
            "Meta description length is within the recommended range.",
            Some("Length: " \o ToString(Len(d.metaDescription)) \o " characters"),
            None)>>,
         pts |-> 20]

metaDescriptionRule(d) ==
    IF d.metaDescription = "" THEN
        [results |-> <<Finding("error", "Missing meta description",
            "Meta description is missing, which affects click-through rates.",
            None, None)>>,
         pts |-> 0]
    ELSE IF Len(d.metaDescription) < 120 THEN
        [results |-> <<Finding("warning", "Meta description too short",
            "Meta description should be 120-160 characters for best results.",
            Some("Current length: " \o ToString(Len(d.metaDescription)) \o " characters"),
            None)>>,
         pts |-> 10]
    ELSE IF Len(d.metaDescription) > 160 THEN
        [results |-> <<Finding("warning", "Meta description too long",
            "Meta description may be truncated in search results.",
            Some("Current length: " \o ToString(Len(d.metaDescription)) \o " characters"),
            None)>>,
         pts |-> 10]
    ELSE
        [results |-> <<Finding("success", "Meta description length optimal",
            "Meta description length is within the recommended range.",
            Some("Length: " \o ToString(Len(d.metaDescription)) \o " characters"),
            None)>>,
         pts |-> 20]

\* data.headings.filter(h => h.level === 1).length
h1CountOf(d) == Cardinality({i \in 1..Len(d.headings) : d.headings[i].level = 1})

\* headingRule whose second test is h1Count >= 1 instead of h1Count > 1.
headingRule_atLeastOne(d) ==
    LET h1Count == h1CountOf(d) IN
    IF h1Count = 0 THEN
        [results |-> <<Finding("error", "Missing H1 tag",
            "Every page should have exactly one H1 tag.", None, None)>>,
         pts |-> 0]
    ELSE
        [results |-> <<Finding("warning", "Multiple H1 tags found",
            "Use only one H1 per page and structure other headings hierarchically.",
            None, Some("H1 tags" :> h1Count))>>,
         pts |-> 10]

headingRule(d) ==
    LET h1Count == h1CountOf(d) IN
    IF h1Count = 0 THEN
        [results |-> <<Finding("error", "Missing H1 tag",
            "Every page should have exactly one H1 tag.", None, None)>>,
         pts |-> 0]
    ELSE IF h1Count > 1 THEN
        [results |-> <<Finding("warning", "Multiple H1 tags found",
            "Use only one H1 per page and structure other headings hierarchically.",
            None, Some("H1 tags" :> h1Count))>>,
         pts |-> 10]
    ELSE
        [results |-> <<Finding("success", "Proper H1 structure",
            "Page has exactly one H1 tag.", None, None)>>,
         pts |-> 15]

\* data.images.filter(img => !img.hasAlt).length
imagesWithoutAltOf(d) == Cardinality({i \in 1..Len(d.images) : ~d.images[i].hasAlt})

\* imageRule whose second test is length >= 0, so that a page without
\* images is praised for its alt texts.
imageRule_noImages(d) ==
    LET imagesWithoutAlt == imagesWithoutAltOf(d) IN
    IF imagesWithoutAlt > 0 THEN
        [results |-> <<Finding("error", "Missing alt text on images",
            ToString(imagesWithoutAlt)
                \o " images found without alt attributes, affecting accessibility and SEO.",
            None,
            Some(("Total images" :> Len(d.images)) @@ ("Missing alt" :> imagesWithoutAlt)))>>,
         pts |-> 0]
    ELSE
        [results |-> <<Finding("success", "All images have alt text",
            "Great job! All images have descriptive alt attributes.",
            None, Some("Total images" :> Len(d.images)))>>,
         pts |-> 15]

\* imageRule reporting the number of all images as 'Missing alt'.
imageRule_totalAsMissing(d) ==
    LET imagesWithoutAlt == imagesWithoutAltOf(d) IN
    IF imagesWithoutAlt > 0 THEN
        [results |-> <<Finding("error", "Missing alt text on images",
            ToString(imagesWithoutAlt)
                \o " images found without alt attributes, affecting accessibility and SEO.",
            None,
            Some(("Total images" :> Len(d.images)) @@ ("Missing alt" :> Len(d.images))))>>,
         pts |-> 0]
    ELSE IF Len(d.images) > 0 THEN
        [results |-> <<Finding("success", "All images have alt text",
            "Great job! All images have descriptive alt attributes.",
            None, Some("Total images" :> Len(d.images)))>>,
         pts |-> 15]
    ELSE
        [results |-> <<>>, pts |-> 0]

\* imageRule granting the 15 points to a page without images, with no
\* finding.
imageRule_pointsWithoutImages(d) ==
    LET imagesWithoutAlt == imagesWithoutAltOf(d) IN
    IF imagesWithoutAlt > 0 THEN
        [results |-> <<Finding("error", "Missing alt text on images",
            ToString(imagesWithoutAlt)
                \o " images found without alt attributes, affecting accessibility and SEO.",
            None,
            Some(("Total images" :> Len(d.images)) @@ ("Missing alt" :> imagesWithoutAlt)))>>,
         pts |-> 0]
    ELSE IF Len(d.images) > 0 THEN
        [results |-> <<Finding("success", "All images have alt text",
            "Great job! All images have descriptive alt attributes.",
            None, Some("Total images" :> Len(d.images)))>>,
         pts |-> 15]
    ELSE
        [results |-> <<>>, pts |-> 15]

imageRule(d) ==
    LET imagesWithoutAlt == imagesWithoutAltOf(d) IN
    IF imagesWithoutAlt > 0 THEN
        [results |-> <<Finding("error", "Missing alt text on images",
            ToString(imagesWithoutAlt)
                \o " images found without alt attributes, affecting accessibility and SEO.",
            None,
            Some(("Total images" :> Len(d.images)) @@ ("Missing alt" :> imagesWithoutAlt)))>>,
         pts |-> 0]
    ELSE IF Len(d.images) > 0 THEN
        [results |-> <<Finding("success", "All images have alt text",
            "Great job! All images have descriptive alt attributes.",
            None, Some("Total images" :> Len(d.images)))>>,
         pts |-> 15]
    ELSE
        [results |-> <<>>, pts |-> 0]

\* schemaRule adding 20 points, as the schema rule of analyzeGeo does.
schemaRule_twenty(d) ==
    IF ~d.hasSchema THEN
        [results |-> <<Finding("warning", "No schema markup found",
            "Consider adding structured data to help search engines understand your content.",
            None, None)>>,
         pts |-> 0]
    ELSE
        [results |-> <<Finding("success", "Schema markup present",
            "Structured data found on the page.",
            Some("Types: " \o join(d.schemaTypes, ", ")), None)>>,
         pts |-> 20]

schemaRule(d) ==
    IF ~d.hasSchema THEN
        [results |-> <<Finding("warning", "No schema markup found",
            "Consider adding structured data to help search engines understand your content.",
            None, None)>>,
         pts |-> 0]
    ELSE
        [results |-> <<Finding("success", "Schema markup present",
            "Structured data found on the page.",
            Some("Types: " \o join(d.schemaTypes, ", ")), None)>>,
         pts |-> 15]

\* loadTimeRule with the threshold 5000 instead of 3000.
loadTimeRule_fiveSeconds(d) ==
    IF d.loadTime > 5000 THEN
        [results |-> <<Finding("warning", "Slow page load time",
            "Page took longer than 3 seconds to load, which may affect user experience.",
            None, Some("Load time" :> (ToString(d.loadTime) \o "ms")))>>,
         pts |-> 0]
    ELSE
        [results |-> <<Finding("success", "Good page load time",
            "Page loads within acceptable time limits.",
            None, Some("Load time" :> (ToString(d.loadTime) \o "ms")))>>,
         pts |-> 15]

loadTimeRule(d) ==
    IF d.loadTime > 3000 THEN
        [results |-> <<Finding("warning", "Slow page load time",
            "Page took longer than 3 seconds to load, which may affect user experience.",
            None, Some("Load time" :> (ToString(d.loadTime) \o "ms")))>>,
         pts |-> 0]
    ELSE
        [results |-> <<Finding("success", "Good page load time",
            "Page loads within acceptable time limits.",
            None, Some("Load time" :> (ToString(d.loadTime) \o "ms")))>>,
         pts |-> 15]

\* The value of the local variable score just before the return statement.
seoRawScore(d) ==
    titleRule(d).pts + metaDescriptionRule(d).pts + headingRule(d).pts
        + imageRule(d).pts + schemaRule(d).pts + loadTimeRule(d).pts

analyzeTraditionalSeo(d) ==
    [results |-> titleRule(d).results \o metaDescriptionRule(d).results
                    \o headingRule(d).results \o imageRule(d).results
                    \o schemaRule(d).results \o loadTimeRule(d).results,
     score |-> Min(seoRawScore(d), maxScore)]

-----------------------------------------------------------------------------
(* analyzeGeo: five rules, each pushing one finding.                       *)

GeoFinding(type, title, description) ==
    [type |-> type, title |-> title, description |-> description]

\* data.headings.some(h => h.level === 2)
hasH2Structure(d) == \E i \in 1..Len(d.headings) : d.headings[i].level = 2

hasTldr(d) ==
    LET lower == toLowerCase(d.content) IN
    \/ includes(lower, "tl;dr")
    \/ includes(lower, "summary")
    \/ includes(lower, "key takeaways")

\* hasQAFormat searching data.content as it is, without toLowerCase().
hasQAFormat_caseSensitive(d) ==
    \/ includes(d.content, "what is")
    \/ includes(d.content, "how to")
    \/ includes(d.content, "why")
    \/ \E i \in 1..Len(d.headings) : includes(toLowerCase(d.headings[i].text), "?")

hasQAFormat(d) ==
    LET lower == toLowerCase(d.content) IN
    \/ includes(lower, "what is")
    \/ includes(lower, "how to")
    \/ includes(lower, "why")
    \/ \E i \in 1..Len(d.headings) : includes(toLowerCase(d.headings[i].text), "?")

\* RegExp.prototype.test of /\b[A-Z][a-z]+ [A-Z][a-z]+\b/: a capital at a
\* word boundary at i, lower-case letters up to k, a space, a capital, and
\* lower-case letters up to m, where a word boundary follows.
properNounPattern(s) ==
    \E i \in 1..Len(s) :
        /\ i = 1 \/ ~isWord(At(s, i - 1))
        /\ isUpper(At(s, i))
        /\ \E k \in (i + 1)..(Len(s) - 3) :
              /\ \A j \in (i + 1)..k : isLower(At(s, j))
              /\ At(s, k + 1) = " "
              /\ isUpper(At(s, k + 2))
              /\ \E m \in (k + 3)..Len(s) :
                    /\ \A j \in (k + 3)..m : isLower(At(s, j))
                    /\ m = Len(s) \/ ~isWord(At(s, m + 1))

hasEntities(d) ==
    \/ includes(d.content, "2024")
    \/ includes(d.content, "2023")
    \/ properNounPattern(d.content)

structureRule(d) ==
    IF hasH2Structure(d) THEN
        [results |-> <<GeoFinding("success", "Content structured with H2 headings",
            "Good use of heading structure that AI engines can easily parse and understand.")>>,
         pts |-> 20]
    ELSE
        [results |-> <<GeoFinding("warning", "Poor heading structure for AI",
            "Add H2 and H3 headings to improve AI readability and content parsing.")>>,
         pts |-> 0]

tldrRule(d) ==
    IF ~hasTldr(d) THEN
        [results |-> <<GeoFinding("error", "No TL;DR summary found",
            "AI tools prefer concise summaries. Add a TL;DR section to improve AI-driven content discovery.")>>,
         pts |-> 0]
    ELSE
        [results |-> <<GeoFinding("success", "Summary content present",
            "Content includes summary sections that AI tools can easily extract.")>>,
         pts |-> 25]

qaRule(d) ==
    IF ~hasQAFormat(d) THEN
        [results |-> <<GeoFinding("warning", "Limited question-answer format",
            "Content doesn't directly answer user intent queries. Consider restructuring with Q&A sections.")>>,
         pts |-> 0]
    ELSE
        [results |-> <<GeoFinding("success", "Question-answer format detected",
            "Content addresses user questions directly, improving AI platform visibility.")>>,
         pts |-> 20]

geoSchemaRule(d) ==
    IF ~d.hasSchema THEN
        [results |-> <<GeoFinding("error", "Missing schema markup",
            "No structured data found. Schema markup helps AI engines understand your content context.")>>,
         pts |-> 0]
    ELSE
        [results |-> <<GeoFinding("success", "Schema markup enhances AI understanding",
            "Structured data helps AI platforms understand content relationships and context.")>>,
         pts |-> 20]

entityRule(d) ==
    IF hasEntities(d) THEN
        [results |-> <<GeoFinding("success", "Good entity and semantic clarity",
            "Content includes specific entities, dates, and proper nouns that improve AI understanding.")>>,
         pts |-> 15]
    ELSE
        [results |-> <<GeoFinding("warning", "Moderate entity and semantic clarity",
            "Consider adding more specific dates, locations, and definitions to improve AI understanding.")>>,
         pts |-> 0]

geoRawScore(d) ==
    structureRule(d).pts + tldrRule(d).pts + qaRule(d).pts
        + geoSchemaRule(d).pts + entityRule(d).pts

analyzeGeo(d) ==
    [results |-> structureRule(d).results \o tldrRule(d).results \o qaRule(d).results
                    \o geoSchemaRule(d).results \o entityRule(d).results,
     score |-> Min(geoRawScore(d), maxScore)]

-----------------------------------------------------------------------------
(* analyzeAiPlatformVisibility: twelve factor heuristics, the overall      *)
(* percentage, the summary and the recommendations.                        *)

assessCrawlability(d) ==
    LET content == toLowerCase(d.content)
        score == IF includes(content, "login") \/ includes(content, "sign in")
                 THEN 80 - 20 ELSE 80
    IN  Max(0, score)

assessHtmlStructure(d) ==
    LET h1Count == Cardinality({i \in 1..Len(d.headings) : d.headings[i].level = 1})
        hasH2 == \E i \in 1..Len(d.headings) : d.headings[i].level = 2
        hasH3 == \E i \in 1..Len(d.headings) : d.headings[i].level = 3
        score == (IF h1Count = 1 THEN 25 ELSE IF h1Count = 0 THEN 0 ELSE 10)
                 + (IF hasH2 THEN 25 ELSE 0)
                 + (IF hasH3 THEN 15 ELSE 0)
                 + (IF d.title # "" /\ Len(d.title) > 10 THEN 20 ELSE 0)
                 + (IF d.metaDescription # "" /\ Len(d.metaDescription) > 50 THEN 15 ELSE 0)
    IN  Min(100, score)

assessContentClarity(d) ==
    LET content == toLowerCase(d.content)
        score == (IF \/ includes(content, "what is")
                     \/ includes(content, "introduction")
                     \/ includes(content, "overview") THEN 25 ELSE 0)
                 + (IF \/ includes(content, "how to")
                       \/ includes(content, "why")
                       \/ includes(content, "when") THEN 25 ELSE 0)
                 + (IF \/ includes(content, "definition")
                       \/ includes(content, "means")
                       \/ includes(content, "refers to") THEN 20 ELSE 0)
                 + (IF d.wordCount > 300 /\ d.wordCount < 3000 THEN 30
                    ELSE IF d.wordCount >= 3000 THEN 15 ELSE 0)
    IN  Min(100, score)

\* content.split('\n\n').filter(p => p.trim().length > 50)
paragraphsOf(content) ==
    LET pieces == split(content, "\n\n")
    IN  SelectSeq(pieces, LAMBDA p : Len(trim(p)) > 50)

RECURSIVE totalLength(_)
totalLength(strings) ==
    IF strings = <<>> THEN 0 ELSE Len(Head(strings)) + totalLength(Tail(strings))

\* The second argument of paragraphs.reduce: the initial value of the sum.
paragraphSumInitial == Some(0)

\* Array.prototype.reduce throws a TypeError on an empty array when it is
\* given no initial value.
assessScanabilityThrows(d) ==
    paragraphsOf(d.content) = <<>> /\ paragraphSumInitial = None

assessScanability(d) ==
    LET content == d.content
        paragraphs == paragraphsOf(content)
        \* avgParagraphLength is sum / paragraphs.length
        sum == paragraphSumInitial[1] + totalLength(paragraphs)
        count == Len(paragraphs)
        score == (IF quotientLess(sum, count, 300) THEN 40
                  ELSE IF quotientLess(sum, count, 500) THEN 25 ELSE 10)
                 + (IF \/ includes(content, Bullet)
                       \/ includes(content, "*")
                       \/ includes(content, "1.")
                       \/ includes(content, "-") THEN 30 ELSE 0)
                 + (IF Len(d.headings) > 3 THEN 30 ELSE 0)
    IN  Min(100, score)

assessSummarySections(d) ==
    LET content == toLowerCase(d.content)
        score == (IF includes(content, "tl;dr") \/ includes(content, "tldr") THEN 40 ELSE 0)
                 + (IF \/ includes(content, "summary")
                       \/ includes(content, "key points")
                       \/ includes(content, "takeaways") THEN 30 ELSE 0)
                 + (IF includes(content, "conclusion") \/ includes(content, "to summarize")
                    THEN 30 ELSE 0)
    IN  Min(100, score)

isQuestionHeading(h) ==
    LET text == toLowerCase(h.text) IN
    \/ includes(text, "?")
    \/ startsWith(text, "how ")
    \/ startsWith(text, "what ")
    \/ startsWith(text, "why ")

assessQaFormat(d) ==
    LET content == toLowerCase(d.content)
        questionHeadings == SelectSeq(d.headings, isQuestionHeading)
        score == (IF \/ includes(content, "q:")
                     \/ includes(content, "question:")
                     \/ includes(content, "faq") THEN 40 ELSE 0)
                 + (IF includes(content, "a:") \/ includes(content, "answer:") THEN 30 ELSE 0)
                 + (IF Len(questionHeadings) > 0 THEN 30 ELSE 0)
    IN  Min(100, score)

\* Array.prototype.includes on an array of strings
arrayIncludes(array, x) == \E i \in 1..Len(array) : array[i] = x

assessSchemaMarkup(d) ==
    LET score == IF d.hasSchema
                 THEN 50 + (IF arrayIncludes(d.schemaTypes, "FAQPage") THEN 20 ELSE 0)
                         + (IF arrayIncludes(d.schemaTypes, "Article") THEN 15 ELSE 0)
                         + (IF arrayIncludes(d.schemaTypes, "HowTo") THEN 15 ELSE 0)
                 ELSE 0
    IN  Min(100, score)

isExternal(link) == ~link.isInternal

assessTrustedEntities(d) ==
    LET content == toLowerCase(d.content)
        externalLinks == SelectSeq(d.links, isExternal)
        score == (IF \/ includes(content, "wikipedia")
                     \/ includes(content, ".gov")
                     \/ includes(content, ".edu") THEN 30 ELSE 0)
                 + (IF \/ includes(content, "research")
                       \/ includes(content, "study")
                       \/ includes(content, "university") THEN 25 ELSE 0)
                 + (IF Len(externalLinks) > 2 THEN 25 ELSE 0)
                 + (IF Len(externalLinks) > 5 THEN 20 ELSE 0)
    IN  Min(100, score)

assessDataFormats(d) ==
    LET content == d.content
        score == (IF \/ includes(content, Bullet)
                     \/ includes(content, "*")
                     \/ matchesBulletLine(content) THEN 30 ELSE 0)
                 + (IF matchesNumberedLine(content) THEN 25 ELSE 0)
                 + (IF \/ matchesPercent(content)
                       \/ matchesDollar(content)
                       \/ matchesThousands(content) THEN 25 ELSE 0)
                 + 20
    IN  Min(100, score)

\* complexWordsOf without the "|| []": null when nothing matches.
complexWordsOf_unguarded(d) == matchComplexWords(d.content)

\* data.content.match(/\w{10,}/g) || []
complexWordsOf(d) ==
    LET matched == matchComplexWords(d.content)
    IN  IF matched = None THEN Some(<<>>) ELSE matched

\* Reading .length of null throws a TypeError.
assessReadabilityThrows(d) == complexWordsOf(d) = None

assessReadability(d) ==
    LET \* data.content.split('.').length || 1
        sentences == IF Len(split(d.content, ".")) = 0 THEN 1 ELSE Len(split(d.content, "."))
        \* avgWordsPerSentence is data.wordCount / sentences
        complexWords == Len(complexWordsOf(d)[1])
        \* complexWordRatio is complexWords / data.wordCount; 0.05 is 1/20
        \* and 0.1 is 1/10
        score == 60
                 + (IF quotientLess(d.wordCount, sentences, 15) THEN 25
                    ELSE IF quotientLess(d.wordCount, sentences, 20) THEN 15 ELSE 5)
                 + (IF quotientLess(20 * complexWords, d.wordCount, 1) THEN 15
                    ELSE IF quotientLess(10 * complexWords, d.wordCount, 1) THEN 10 ELSE 0)
    IN  Min(100, score)

\* assessFreshness returning score without Math.min(100, score).
assessFreshness_unclamped(d) ==
    LET content == toLowerCase(d.content)
        currentYear == year
        score == (IF includes(content, ToString(currentYear)) THEN 40 ELSE 0)
                 + (IF includes(content, ToString(currentYear - 1)) THEN 20 ELSE 0)
                 + (IF \/ includes(content, "updated")
                       \/ includes(content, "revised")
                       \/ includes(content, "latest") THEN 30 ELSE 0)
                 + (IF includes(content, "2024") \/ includes(content, "2025") THEN 30 ELSE 0)
    IN  score

\* Reads the clock: currentYear is new Date().getFullYear().
assessFreshness(d) ==
    LET content == toLowerCase(d.content)
        currentYear == year
        score == (IF includes(content, ToString(currentYear)) THEN 40 ELSE 0)
                 + (IF includes(content, ToString(currentYear - 1)) THEN 20 ELSE 0)
                 + (IF \/ includes(content, "updated")
                       \/ includes(content, "revised")
                       \/ includes(content, "latest") THEN 30 ELSE 0)
                 + (IF includes(content, "2024") \/ includes(content, "2025") THEN 30 ELSE 0)
    IN  Min(100, score)

assessCredibility(d) ==
    LET content == toLowerCase(d.content)
        score == 40
                 + (IF \/ includes(content, "author")
                       \/ includes(content, "written by")
                       \/ includes(content, "by:") THEN 25 ELSE 0)
                 + (IF \/ includes(content, "contact")
                       \/ includes(content, "about us")
                       \/ includes(content, "team") THEN 20 ELSE 0)
                 + (IF \/ includes(content, "expert")
                       \/ includes(content, "certified")
                       \/ includes(content, "professional") THEN 15 ELSE 0)
    IN  Min(100, score)

\* statusOf with strict thresholds: a score of exactly 80 is no pass and a
\* score of exactly 50 is a fail.
statusOf_strict(score) == IF score > 80 THEN "pass" ELSE IF score > 50 THEN "warning" ELSE "fail"

\* score >= 80 ? 'pass' : score >= 50 ? 'warning' : 'fail'
statusOf(score) == IF score >= 80 THEN "pass" ELSE IF score >= 50 THEN "warning" ELSE "fail"

Factor(name, score, description) ==
    [factor |-> name, score |-> score, description |-> description,
     status |-> statusOf(score)]

\* The array factors after the twelve pushes.
factorsOf(d) ==
    << Factor("Public Crawlability", assessCrawlability(d),
          "Page accessibility for AI crawlers without login walls or blocking"),
       Factor("HTML Structure", assessHtmlStructure(d),
          "Clean semantic HTML with proper heading hierarchy"),
       Factor("Content Clarity", assessContentClarity(d),
          "Clear introduction, topic definition, and direct question answers"),
       Factor("Content Scannability", assessScanability(d),
          "Short paragraphs and easy-to-summarize content structure"),
       Factor("TL;DR & Summary", assessSummarySections(d),
          "Quick summary sections at top or bottom of content"),
       Factor("Q&A Format", assessQaFormat(d),
          "Structured question-answer blocks that AI can easily extract"),
       Factor("Schema Markup", assessSchemaMarkup(d),
          "FAQPage, HowTo, Article, and other relevant structured data"),
       Factor("Trusted Entities", assessTrustedEntities(d),
          "References to organizations, authority sources, and credible links"),
       Factor("Data Extraction", assessDataFormats(d),
          "Bullet lists, tables, statistics, and structured information"),
       Factor("Readability Level", assessReadability(d),
          "8th-grade reading level, minimal jargon and marketing fluff"),
       Factor("Content Freshness", assessFreshness(d),
          "Updated dates, current year references, and freshness indicators"),
       Factor("Credibility Markers", assessCredibility(d),
          "Author information, contact details, and about us content") >>

RECURSIVE sumOfScores(_)
sumOfScores(factors) ==
    IF factors = <<>> THEN 0 ELSE Head(factors).score + sumOfScores(Tail(factors))

\* maxScore of analyzeAiPlatformVisibility: 12 factors x 100 points each.
visibilityMaxScore == 1200

\* The totals at which the double (totalScore / 1200) * 100 falls just below
\* n + 0.5 although totalScore / 12 is n + 0.5 exactly (174 / 1200 * 100 is
\* 14.499999999999998): Math.round rounds these down.
RoundedDownTotals == {174, 342, 678, 690}

\* Math.round((totalScore / maxScore) * 100), in double arithmetic.
roundedPercentage(totalScore) ==
    LET halfUp == (2 * 100 * totalScore + visibilityMaxScore) \div (2 * visibilityMaxScore)
    IN  IF totalScore \in RoundedDownTotals THEN halfUp - 1 ELSE halfUp

Recommendation(priority, action, description, impact) ==
    [priority |-> priority, action |-> action, description |-> description,
     impact |-> impact]

\* The recommendation pushed for one failing factor (none for most); the
\* descriptions and impacts are Hindi-English literals, named here by the
\* source line that holds them.
failRecommendation(f) ==
    IF f.status # "fail" THEN <<>>
    ELSE IF f.factor = "TL;DR & Summary" THEN
        <<Recommendation("high", "Add TL;DR Summary Section",
            "seo-analyzer.ts:866", "seo-analyzer.ts:867")>>
    ELSE IF f.factor = "Q&A Format" THEN
        <<Recommendation("high", "Create FAQ Section",
            "seo-analyzer.ts:874", "seo-analyzer.ts:875")>>
    ELSE IF f.factor = "Schema Markup" THEN
        <<Recommendation("high", "Implement Structured Data",
            "seo-analyzer.ts:882", "seo-analyzer.ts:883")>>
    ELSE <<>>

\* The recommendation pushed for one factor with a warning (none for most).
warningRecommendation(f) ==
    IF f.status # "warning" THEN <<>>
    ELSE IF f.factor = "HTML Structure" THEN
        <<Recommendation("medium", "Improve Heading Structure",
            "seo-analyzer.ts:898", "seo-analyzer.ts:899")>>
    ELSE IF f.factor = "Content Scannability" THEN
        <<Recommendation("medium", "Break Content into Short Paragraphs",
            "seo-analyzer.ts:906", "seo-analyzer.ts:907")>>
    ELSE <<>>

RECURSIVE failRecommendations(_)
failRecommendations(factors) ==
    IF factors = <<>> THEN <<>>
    ELSE failRecommendation(Head(factors)) \o failRecommendations(Tail(factors))

RECURSIVE warningRecommendations(_)
warningRecommendations(factors) ==
    IF factors = <<>> THEN <<>>
    ELSE warningRecommendation(Head(factors)) \o warningRecommendations(Tail(factors))

generalRecommendations(overallScore) ==
    IF overallScore < 70 THEN
        <<Recommendation("medium", "Add Current Year References",
            "seo-analyzer.ts:919", "seo-analyzer.ts:920")>>
    ELSE <<>>

\* Array.prototype.slice(0, n)
sliceTo(array, n) == SubSeq(array, 1, Min(n, Len(array)))

\* allAiVisibilityRecommendations with the general recommendation pushed
\* first instead of last.
allAiVisibilityRecommendations_generalFirst(factors, overallScore) ==
    generalRecommendations(overallScore) \o failRecommendations(factors)
        \o warningRecommendations(factors)

\* The array recommendations before the final slice.
allAiVisibilityRecommendations(factors, overallScore) ==
    failRecommendations(factors) \o warningRecommendations(factors)
        \o generalRecommendations(overallScore)

generateAiVisibilityRecommendations(factors, overallScore) ==
    sliceTo(allAiVisibilityRecommendations(factors, overallScore), 8)

summaryOf(factors, overallScore) ==
    LET failingFactors == Len(SelectSeq(factors, LAMBDA f : f.status = "fail"))
        warningFactors == Len(SelectSeq(factors, LAMBDA f : f.status = "warning"))
    IN  IF overallScore >= 80 THEN
            "Excellent AI platform visibility with strong optimization across most factors"
        ELSE IF overallScore >= 60 THEN
            "Good AI visibility with " \o ToString(failingFactors + warningFactors)
                \o " areas needing improvement"
        ELSE IF overallScore >= 40 THEN
            "Moderate AI visibility. " \o ToString(failingFactors)
                \o " critical issues and " \o ToString(warningFactors)
                \o " warnings to address"
        ELSE
            "Poor AI platform visibility. Significant optimization needed across "
                \o ToString(failingFactors) \o " critical areas"

\* Whether the call ends in an exception instead of returning.
analyzeAiPlatformVisibilityThrows(d) ==
    assessScanabilityThrows(d) \/ assessReadabilityThrows(d)

analyzeAiPlatformVisibility(d) ==
    LET factors == factorsOf(d)
        totalScore == sumOfScores(factors)
        overallScore == roundedPercentage(totalScore)
    IN  [overallScore |-> overallScore,
         summary |-> summaryOf(factors, overallScore),
         factors |-> factors,
         recommendations |-> generateAiVisibilityRecommendations(factors, overallScore)]

-----------------------------------------------------------------------------
(* generateContentSuggestions and generateAiImprovements.                  *)

Improvement(action, description, impact, priority) ==
    [action |-> action, description |-> description, impact |-> impact,
     priority |-> priority]

criticalImprovements ==
    << Improvement("Add TL;DR Summary Section",
          "AI tools ke liye page ke top par 2-3 lines ka summary add kariye jo main points cover kare",
          "high", 1),
       Improvement("Create FAQ Schema Markup",
          "Common questions aur unke answers ko structured data format mein add kariye taaki AI easily samjh sake",
          "high", 2) >>

mediumImprovements ==
    << Improvement("Improve Content Structure with Clear Headings",
          "H2/H3 headings use kariye jo direct questions answer karte hain (What is, How to, Why)",
          "high", 3),
       Improvement("Add \"People Also Ask\" Section",
          "Related questions aur unke short answers add kariye jo users commonly puchte hain",
          "medium", 4),
       Improvement("Include Specific Dates and Statistics",
          "Current year, numbers, aur specific data points add kariye jo AI tools reference kar sakein",
          "medium", 5) >>

fineTuningImprovements ==
    << Improvement("Optimize for Voice Search Queries",
          "Natural language phrases add kariye jo log voice assistants se puchte hain",
          "medium", 6),
       Improvement("Add Comparison Tables",
          "Options, features ya alternatives ko table format mein present kariye",
          "medium", 7) >>

advancedImprovements ==
    << Improvement("Link to Authoritative Sources",
          "Wikipedia, government sites, aur trusted sources ko reference kariye credibility ke liye",
          "low", 8),
       Improvement("Add Step-by-Step Instructions",
          "Process-based content ko numbered lists mein convert kariye",
          "low", 9),
       Improvement("Implement Article Schema",
          "Publisher, author, aur publication date ka structured data add kariye",
          "low", 10) >>

\* generateAiImprovements returning improvements without slice(0, 6).
generateAiImprovements_unsliced(d, currentScore) ==
    (IF currentScore < 50 THEN criticalImprovements ELSE <<>>)
    \o (IF currentScore < 75 THEN mediumImprovements ELSE <<>>)
    \o (IF currentScore < 85 THEN fineTuningImprovements ELSE <<>>)
    \o (IF currentScore >= 85 THEN advancedImprovements ELSE <<>>)

\* generateAiImprovements with the critical tier unlocked below 30 instead
\* of below 50.
generateAiImprovements_criticalBelowThirty(d, currentScore) ==
    LET improvements ==
            (IF currentScore < 30 THEN criticalImprovements ELSE <<>>)
            \o (IF currentScore < 75 THEN mediumImprovements ELSE <<>>)
            \o (IF currentScore < 85 THEN fineTuningImprovements ELSE <<>>)
            \o (IF currentScore >= 85 THEN advancedImprovements ELSE <<>>)
    IN  sliceTo(improvements, 6)

generateAiImprovements(d, currentScore) ==
    LET improvements ==
            (IF currentScore < 50 THEN criticalImprovements ELSE <<>>)
            \o (IF currentScore < 75 THEN mediumImprovements ELSE <<>>)
            \o (IF currentScore < 85 THEN fineTuningImprovements ELSE <<>>)
            \o (IF currentScore >= 85 THEN advancedImprovements ELSE <<>>)
    IN  sliceTo(improvements, 6)

missingKeywords ==
    <<"SEO optimization", "website performance", "search engine ranking",
      "content marketing", "digital marketing">>

blogTitles ==
    << [title |-> "How to Improve Your Page Speed for Better Rankings in 2024",
        target |-> "page speed optimization, Core Web Vitals"],
       [title |-> "The Complete Guide to AI-Friendly Content Creation",
        target |-> "AI optimization, content structure"],
       [title |-> "SEO vs GEO: What's the Difference and Why It Matters",
        target |-> "generative engine optimization, SEO comparison"],
       [title |-> "Schema Markup: The Secret to Better AI Visibility",
        target |-> "structured data, schema implementation"] >>

contentStructure ==
    <<"## What is SEO Optimization?",
      "### Definition and Core Principles",
      "### Why SEO Matters in 2024",
      "## Traditional SEO vs. AI Optimization",
      "### Search Engine Optimization Basics",
      "### Generative Engine Optimization (GEO)",
      "## Step-by-Step Implementation Guide",
      "### Technical SEO Checklist",
      "### Content Optimization Strategies",
      "## Measuring Success",
      "### Key Performance Indicators",
      "### Tools and Analytics">>

faqs ==
    << [question |-> "What is a good page speed score?",
        answer |-> "A good page speed score is above 90 for mobile and desktop. Core Web Vitals should meet Google's thresholds: LCP under 2.5s, FID under 100ms, and CLS under 0.1."],
       [question |-> "How can I optimize images without losing quality?",
        answer |-> "Use modern formats like WebP or AVIF, implement lazy loading, compress images to 80-85% quality, and serve responsive images using srcset attributes."],
       [question |-> "What's the difference between SEO and GEO?",
        answer |-> "SEO optimizes for search engines like Google, while GEO (Generative Engine Optimization) optimizes for AI platforms like ChatGPT and Perplexity that generate direct answers."],
       [question |-> "How important is schema markup for AI visibility?",
        answer |-> "Schema markup is crucial for AI platforms to understand your content context, entity relationships, and factual information, significantly improving visibility in AI-generated responses."] >>

aiVisibility ==
    [chatgpt |-> "medium", perplexity |-> "low", claude |-> "medium", bard |-> "low"]

\* Suggestions whose keywords are withheld from a page without content.
generateContentSuggestions_fromContent(d, aiScore) ==
    [missingKeywords |-> IF d.content = "" THEN <<>> ELSE missingKeywords,
     blogTitles |-> blogTitles,
     contentStructure |-> contentStructure,
     faqs |-> faqs,
     aiVisibility |-> aiVisibility,
     aiImprovements |-> generateAiImprovements(d, aiScore)]

generateContentSuggestions(d, aiScore) ==
    [missingKeywords |-> missingKeywords,
     blogTitles |-> blogTitles,
     contentStructure |-> contentStructure,
     faqs |-> faqs,
     aiVisibility |-> aiVisibility,
     aiImprovements |-> generateAiImprovements(d, aiScore)]

-----------------------------------------------------------------------------
(* compareWebsites: the score differences of two reports and the list of   *)
(* key differences; and its earlier variant, which takes no AI-visibility  *)
(* reports.                                                                *)

\* Math.abs
abs(x) == IF x < 0 THEN 0 - x ELSE x

KeyDifference(category, aspect, url1Value, url2Value, recommendation) ==
    [category |-> category, aspect |-> aspect, url1Value |-> url1Value,
     url2Value |-> url2Value, recommendation |-> recommendation]

\* factors.find(f => f.factor === name): the first such factor, or undefined.
findFactor(factors, name) ==
    LET found == {i \in 1..Len(factors) : factors[i].factor = name}
    IN  IF found = {} THEN None
        ELSE Some(factors[CHOOSE i \in found : \A j \in found : i <= j])

\* factor ? `${factor.score}/100` : 'Not assessed'
scoreOutOfHundred(factor) ==
    IF factor = None THEN "Not assessed" ELSE ToString(factor[1].score) \o "/100"

\* data.metaDescription ? `${data.metaDescription.length} chars` : 'Missing'
metaDescriptionValue(d) ==
    IF d.metaDescription = "" THEN "Missing"
    ELSE ToString(Len(d.metaDescription)) \o " chars"

\* data.hasSchema ? `${data.schemaTypes.length} types` : 'None'
schemaValue(d) ==
    IF d.hasSchema THEN ToString(Len(d.schemaTypes)) \o " types" ELSE "None"

headingValue(d) ==
    IF hasH2Structure(d) THEN "Has H2 structure" ELSE "Poor heading structure"

tldrValue(d) ==
    IF includes(toLowerCase(d.content), "tl;dr") THEN "Present" ELSE "Missing"

\* seoDifferences testing the signed difference: no entry when the second
\* site is the weaker one.
seoDifferences_signed(data1, data2, seoScoreDiff) ==
    IF seoScoreDiff > 10 THEN
        << KeyDifference("seo", "Title Tag Optimization",
              ToString(Len(data1.title)) \o " characters",
              ToString(Len(data2.title)) \o " characters",
              "URL2 has better title length (50-60 chars ideal)"),
           KeyDifference("seo", "Meta Description",
              metaDescriptionValue(data1), metaDescriptionValue(data2),
              "Meta description should be 150-160 characters for best results") >>
    ELSE <<>>

seoDifferences(data1, data2, seoScoreDiff) ==
    IF abs(seoScoreDiff) > 10 THEN
        << KeyDifference("seo", "Title Tag Optimization",
              ToString(Len(data1.title)) \o " characters",
              ToString(Len(data2.title)) \o " characters",
              IF seoScoreDiff > 0
              THEN "URL2 has better title length (50-60 chars ideal)"
              ELSE "URL1 has better title length optimization"),
           KeyDifference("seo", "Meta Description",
              metaDescriptionValue(data1), metaDescriptionValue(data2),
              "Meta description should be 150-160 characters for best results") >>
    ELSE <<>>

\* visibilityDifferences with the threshold 10 of the other two categories.
visibilityDifferences_tenPoints(aiVisibility1, aiVisibility2, aiVisibilityDiff) ==
    IF abs(aiVisibilityDiff) > 10 THEN
        << KeyDifference("visibility", "AI Platform Summary",
              scoreOutOfHundred(findFactor(aiVisibility1.factors, "TL;DR & Summary")),
              scoreOutOfHundred(findFactor(aiVisibility2.factors, "TL;DR & Summary")),
              "seo-analyzer.ts:967"),
           KeyDifference("visibility", "Structured Data Implementation",
              scoreOutOfHundred(findFactor(aiVisibility1.factors, "Schema Markup")),
              scoreOutOfHundred(findFactor(aiVisibility2.factors, "Schema Markup")),
              "seo-analyzer.ts:978") >>
    ELSE <<>>

visibilityDifferences(aiVisibility1, aiVisibility2, aiVisibilityDiff) ==
    IF abs(aiVisibilityDiff) > 15 THEN
        << KeyDifference("visibility", "AI Platform Summary",
              scoreOutOfHundred(findFactor(aiVisibility1.factors, "TL;DR & Summary")),
              scoreOutOfHundred(findFactor(aiVisibility2.factors, "TL;DR & Summary")),
              "seo-analyzer.ts:967"),
           KeyDifference("visibility", "Structured Data Implementation",
              scoreOutOfHundred(findFactor(aiVisibility1.factors, "Schema Markup")),
              scoreOutOfHundred(findFactor(aiVisibility2.factors, "Schema Markup")),
              "seo-analyzer.ts:978") >>
    ELSE <<>>

\* aiDifferences with the threshold 15 of the visibility category.
aiDifferences_fifteenPoints(data1, data2, aiScoreDiff) ==
    IF abs(aiScoreDiff) > 15 THEN
        << KeyDifference("ai", "Content Structure",
              headingValue(data1), headingValue(data2),
              "Use H2/H3 headings for better AI content parsing"),
           KeyDifference("ai", "Schema Markup",
              schemaValue(data1), schemaValue(data2),
              "Implement FAQ and Article schema for AI platforms") >>
    ELSE <<>>

aiDifferences(data1, data2, aiScoreDiff) ==
    IF abs(aiScoreDiff) > 10 THEN
        << KeyDifference("ai", "Content Structure",
              headingValue(data1), headingValue(data2),
              "Use H2/H3 headings for better AI content parsing"),
           KeyDifference("ai", "Schema Markup",
              schemaValue(data1), schemaValue(data2),
              "Implement FAQ and Article schema for AI platforms") >>
    ELSE <<>>

\* The earlier variant also compares the TL;DR sections.
aiDifferencesEarlier(data1, data2, aiScoreDiff) ==
    IF abs(aiScoreDiff) > 10 THEN
        << KeyDifference("ai", "Content Structure",
              headingValue(data1), headingValue(data2),
              "Use H2/H3 headings for better AI content parsing"),
           KeyDifference("ai", "TL;DR Summary",
              tldrValue(data1), tldrValue(data2),
              "Add TL;DR section for better AI tool visibility"),
           KeyDifference("ai", "Schema Markup",
              schemaValue(data1), schemaValue(data2),
              "Implement FAQ and Article schema for AI platforms") >>
    ELSE <<>>

\* A report that was not passed is undefined, and reading overallScore of
\* undefined is a TypeError.
compareWebsitesThrows(aiVisibility1, aiVisibility2) ==
    aiVisibility2 = None \/ aiVisibility1 = None

\* compareWebsites naming url2 the better performer when the summed
\* difference is 0 as well.
compareWebsites_tieToSecond(data1, report1, data2, report2, aiVisibility1, aiVisibility2) ==
    LET seoScoreDiff == report2.seoScore - report1.seoScore
        aiScoreDiff == report2.aiScore - report1.aiScore
        aiVisibilityDiff == aiVisibility2[1].overallScore - aiVisibility1[1].overallScore
    IN  [seoScoreDiff |-> seoScoreDiff,
         aiScoreDiff |-> aiScoreDiff,
         aiVisibilityDiff |-> aiVisibilityDiff,
         betterPerformer |->
            IF (seoScoreDiff + aiScoreDiff + aiVisibilityDiff) >= 0 THEN "url2" ELSE "url1",
         keyDifferences |->
            seoDifferences(data1, data2, seoScoreDiff)
            \o visibilityDifferences(aiVisibility1[1], aiVisibility2[1], aiVisibilityDiff)
            \o aiDifferences(data1, data2, aiScoreDiff)]

\* The arguments aiVisibility1 and aiVisibility2 are Some(report) here.
compareWebsites(data1, report1, data2, report2, aiVisibility1, aiVisibility2) ==
    LET seoScoreDiff == report2.seoScore - report1.seoScore
        aiScoreDiff == report2.aiScore - report1.aiScore
        aiVisibilityDiff == aiVisibility2[1].overallScore - aiVisibility1[1].overallScore
    IN  [seoScoreDiff |-> seoScoreDiff,
         aiScoreDiff |-> aiScoreDiff,
         aiVisibilityDiff |-> aiVisibilityDiff,
         betterPerformer |->
            IF (seoScoreDiff + aiScoreDiff + aiVisibilityDiff) > 0 THEN "url2" ELSE "url1",
         keyDifferences |->
            seoDifferences(data1, data2, seoScoreDiff)
            \o visibilityDifferences(aiVisibility1[1], aiVisibility2[1], aiVisibilityDiff)
            \o aiDifferences(data1, data2, aiScoreDiff)]

compareWebsitesEarlier(data1, report1, data2, report2) ==
    LET seoScoreDiff == report2.seoScore - report1.seoScore
        aiScoreDiff == report2.aiScore - report1.aiScore
    IN  [seoScoreDiff |-> seoScoreDiff,
         aiScoreDiff |-> aiScoreDiff,
         betterPerformer |-> IF seoScoreDiff + aiScoreDiff > 0 THEN "url2" ELSE "url1",
         keyDifferences |->
            seoDifferences(data1, data2, seoScoreDiff)
            \o aiDifferencesEarlier(data1, data2, aiScoreDiff)]

-----------------------------------------------------------------------------
(* MemStorage: a Map from id to report, and the next id.  A Map keeps its  *)
(* entries in insertion order; map is the sequence of its entries.         *)

\* Map.prototype.get: the value under key, or undefined.
mapGet(map, key) ==
    LET found == {i \in 1..Len(map) : map[i].key = key}
    IN  IF found = {} THEN None ELSE Some(map[CHOOSE i \in found : TRUE].value)

\* A map that holds only the entry set last.
mapSet_lastOnly(map, key, value) == <<[key |-> key, value |-> value]>>

\* Map.prototype.set: the value under an existing key is replaced where it
\* stands, a new key is added at the end.
mapSet(map, key, value) ==
    IF \E i \in 1..Len(map) : map[i].key = key
    THEN [i \in 1..Len(map) |->
            IF map[i].key = key THEN [key |-> key, value |-> value] ELSE map[i]]
    ELSE Append(map, [key |-> key, value |-> value])

\* Array.from(map.values())
mapValues(map) == [i \in 1..Len(map) |-> map[i].value]

\* The report createAuditReport builds: {...insertReport, id, createdAt: new Date()}.
storedReport(insertReport, id) ==
    [id |-> id, createdAt |-> year] @@ insertReport

getAuditReport(id) == mapGet(reports, id)

getAuditReportsByUrl(url) == SelectSeq(mapValues(reports), LAMBDA report : report.url = url)

getAllAuditReports == mapValues(reports)

-----------------------------------------------------------------------------
(* The routes: POST /api/analyze, GET /api/reports/:id, GET /api/reports.  *)

\* z.string().url(): new URL(url) must succeed, which takes a scheme: a
\* letter, then letters and digits, then a colon.
isUrl(url) ==
    \E i \in 2..Len(url) :
        /\ At(url, i) = ":"
        /\ isUpper(At(url, 1)) \/ isLower(At(url, 1))
        /\ \A j \in 2..(i - 1) : isWord(At(url, j))

\* z.boolean().default(true): a toggle the body does not carry is true.
withDefault(field, default) == IF field = None THEN default ELSE field[1]

\* analyzeUrlSchema.parse throws a ZodError.
parseThrows(body) == ~isUrl(body.url)

\* What analyzeUrlSchema.parse returns.
parse(body) ==
    [url |-> body.url,
     includeTraditionalSeo |-> withDefault(body.includeTraditionalSeo, TRUE),
     includeGeo |-> withDefault(body.includeGeo, TRUE),
     includeContentSuggestions |-> withDefault(body.includeContentSuggestions, TRUE)]

\* A default that is not the zero score.
noAnalysis_scoreOne == [results |-> <<>>, score |-> 1]

\* The analysis stored for a scorer that is switched off.
noAnalysis == [results |-> <<>>, score |-> 0]

\* The suggestions stored when they are switched off.
noContentSuggestions ==
    [missingKeywords |-> <<>>,
     blogTitles |-> <<>>,
     contentStructure |-> <<>>,
     faqs |-> <<>>,
     aiVisibility |->
        [chatgpt |-> "low", perplexity |-> "low", claude |-> "low", bard |-> "low"]]

\* seoAnalyzer.generateContentSuggestions(websiteData): the route passes no
\* aiScore; with undefined every comparison of generateAiImprovements is
\* false and no improvement is pushed.
routeContentSuggestions(websiteData) ==
    [generateContentSuggestions(websiteData, 0) EXCEPT !.aiImprovements = <<>>]

\* The argument the handler passes to storage.createAuditReport.
insertReportOf(options, websiteData) ==
    LET traditionalSeoAnalysis ==
            IF options.includeTraditionalSeo THEN analyzeTraditionalSeo(websiteData)
            ELSE noAnalysis
        geoAnalysis ==
            IF options.includeGeo THEN analyzeGeo(websiteData) ELSE noAnalysis
        contentSuggestions ==
            IF options.includeContentSuggestions THEN routeContentSuggestions(websiteData)
            ELSE noContentSuggestions
    IN  [url |-> options.url,
         seoScore |-> traditionalSeoAnalysis.score,
         aiScore |-> geoAnalysis.score,
         traditionalSeoResults |-> traditionalSeoAnalysis.results,
         geoResults |-> geoAnalysis.results,
         contentSuggestions |-> contentSuggestions]

\* res.json(body) and res.status(status).json(body)
Response(status, body) == <<[status |-> status, body |-> body]>>

\* The response of the catch block of POST /api/analyze, whatever was thrown.
analysisError(message) == Response(400, [message |-> message])

-----------------------------------------------------------------------------
(* The inputs the caller draws from.                                       *)

TitleLengths == {0, 1, 29, 30, 60, 61}
MetaLengths == {0, 1, 119, 120, 160, 161}
LoadTimes == {0, 3000, 3001, 5000}

Headings == [level : {1, 2}, text : {"Guide"}]
Images == {[src |-> "a.png", alt |-> "a chart", hasAlt |-> TRUE],
           [src |-> "b.png", alt |-> "", hasAlt |-> FALSE]}

\* Inputs that vary every field analyzeTraditionalSeo reads.
SeoInputs ==
    {[title |-> Rep("t", tl), metaDescription |-> Rep("m", ml),
      headings |-> hs, images |-> is, links |-> <<>>, content |-> "",
      hasSchema |-> sc, schemaTypes |-> IF sc THEN <<"Article", "FAQPage">> ELSE <<>>,
      loadTime |-> lt, wordCount |-> 0] :
        tl \in TitleLengths, ml \in MetaLengths,
        hs \in SeqsUpTo(Headings, MaxHeadings), is \in SeqsUpTo(Images, MaxImages),
        sc \in BOOLEAN, lt \in LoadTimes}

\* Pieces of page text; a content string is up to MaxFragments of them,
\* separated by single spaces.
Fragments == {"TL;DR", "Key Takeaways", "a summary", "What is", "how to", "Why",
              "since 2023", "in 2024", "New York", "plain text"}

contentOf(frags) == join(frags, " ")

Contents == {contentOf(fs) : fs \in SeqsUpTo(Fragments, MaxFragments)}

GeoHeadings ==
    {<<>>,
     <<[level |-> 1, text |-> "Guide"]>>,
     <<[level |-> 2, text |-> "Details"]>>,
     <<[level |-> 1, text |-> "Guide"], [level |-> 3, text |-> "Is it fast?"]>>,
     <<[level |-> 1, text |-> "Guide"], [level |-> 2, text |-> "Is it fast?"]>>}

\* Inputs that vary every field analyzeGeo reads.
GeoInputs ==
    {[title |-> "", metaDescription |-> "",
      headings |-> hs, images |-> <<>>, links |-> <<>>, content |-> c,
      hasSchema |-> sc, schemaTypes |-> IF sc THEN <<"Article">> ELSE <<>>,
      loadTime |-> 0, wordCount |-> 0] :
        hs \in GeoHeadings, c \in Contents, sc \in BOOLEAN}

\* Paragraphs of page text for the twelve factor heuristics; a content
\* string is up to MaxParagraphs of them, separated by blank lines.
Paragraphs ==
    {"Please login to continue",
     "What is SEO? An overview: it means ranking, and this is how to do it.",
     "TL;DR - the key points",
     "Summary and conclusion",
     "FAQ Q: why? A: because",
     "A 2024 university study on wikipedia.org",
     "* one\n1. two\nSales grew 50% to $5,000",
     "Updated for 2025 by our expert team",
     "The latest 2026 figures. Contact the author.",
     "Internationalization considerations notwithstanding"}

VisContents == {join(ps, "\n\n") : ps \in SeqsUpTo(Paragraphs, MaxParagraphs)}

\* Contents whose paragraphs are long: the average paragraph length is below
\* 300, between 300 and 500, and above 500.
LongContents ==
    {Rep("word ", 12),
     Rep("word ", 70),
     Rep("word ", 70) \o "\n\n" \o Rep("text ", 12),
     Rep("word ", 110),
     Rep("word ", 110) \o "\n\n" \o Rep("text ", 12) \o "\n\n" \o "short"}

WordCounts == {0, 12, 35, 301, 3000}

EmptyData ==
    [title |-> "", metaDescription |-> "", headings |-> <<>>, images |-> <<>>,
     links |-> <<>>, content |-> "", hasSchema |-> FALSE, schemaTypes |-> <<>>,
     loadTime |-> 0, wordCount |-> 0]

\* Inputs that vary the text analyzeAiPlatformVisibility reads.
TextInputs ==
    {[EmptyData EXCEPT !.content = c, !.wordCount = wc] :
        c \in VisContents \cup LongContents, wc \in {0, 301}}

\* Inputs that vary the word count against the sentences and the long words.
CountInputs ==
    {[EmptyData EXCEPT !.content = c, !.wordCount = wc] :
        c \in {"", "One. Two. Three.", "Internationalization considerations notwithstanding"},
        wc \in WordCounts}

VisHeadings ==
    GeoHeadings \cup
    {<<[level |-> 1, text |-> "Guide"], [level |-> 1, text |-> "Another guide"]>>,
     <<[level |-> 1, text |-> "Guide"], [level |-> 2, text |-> "How it works"],
       [level |-> 3, text |-> "Details"], [level |-> 2, text |-> "Pricing"]>>}

Link(internal) == [href |-> "https://example.org/a", text |-> "more", isInternal |-> internal]

VisLinks ==
    {<<>>,
     <<Link(TRUE), Link(FALSE), Link(FALSE)>>,
     <<Link(FALSE), Link(FALSE), Link(TRUE), Link(FALSE)>>,
     <<Link(FALSE), Link(FALSE), Link(FALSE), Link(FALSE), Link(FALSE), Link(FALSE)>>}

VisSchemas ==
    {<<FALSE, <<>>>>, <<TRUE, <<>>>>, <<TRUE, <<"FAQPage">>>>,
     <<TRUE, <<"Article", "HowTo">>>>, <<TRUE, <<"FAQPage", "Article", "HowTo">>>>,
     <<FALSE, <<"FAQPage">>>>}

\* Inputs that vary the structure analyzeAiPlatformVisibility reads.
StructureInputs ==
    {[EmptyData EXCEPT !.title = Rep("t", tl), !.metaDescription = Rep("m", ml),
                       !.headings = hs, !.links = ls,
                       !.hasSchema = sc[1], !.schemaTypes = sc[2]] :
        tl \in {0, 10, 11}, ml \in {0, 50, 51}, hs \in VisHeadings,
        ls \in VisLinks, sc \in VisSchemas}

\* Inputs in which text and structure both score: a summary, a fresh date
\* and credentials in the text, under every structure of StructureInputs.
MixedInputs ==
    {[EmptyData EXCEPT !.content = "TL;DR - the key points\n\nUpdated for 2025 by our expert team",
                       !.title = Rep("t", 11), !.metaDescription = Rep("m", 51),
                       !.headings = hs, !.links = ls,
                       !.hasSchema = sc[1], !.schemaTypes = sc[2]] :
        hs \in VisHeadings, ls \in VisLinks, sc \in VisSchemas}

VisInputs == TextInputs \cup CountInputs \cup StructureInputs \cup MixedInputs

\* The values of aiScore the caller passes to generateContentSuggestions.
AiScores == {0, 30, 49, 50, 74, 75, 84, 85, 90, 100}

\* Inputs for calling a scorer twice.
PureInputs ==
    {[EmptyData EXCEPT !.content = c, !.headings = hs] :
        c \in {"", "Updated for 2025 by our expert team",
               "The latest 2026 figures. Contact the author.", "TL;DR since 2023"},
        hs \in GeoHeadings}

\* The two pages compareWebsites is given.
CompareData ==
    {EmptyData,
     [EmptyData EXCEPT !.title = Rep("t", 55), !.metaDescription = Rep("m", 155),
                       !.headings = <<[level |-> 2, text |-> "Details"]>>,
                       !.content = "TL;DR - the key points",
                       !.hasSchema = TRUE, !.schemaTypes = <<"Article", "FAQPage">>]}

\* The scores of the first and of the second report: the differences are
\* -11, -10, 0, 10, 11 and 15.
FirstSeoScore == 70
SecondSeoScores == {59, 60, 70, 80, 81, 85}
FirstAiScore == 40
SecondAiScores == {29, 30, 40, 50, 51, 55}

Report(seoScore, aiScore) == [seoScore |-> seoScore, aiScore |-> aiScore]

\* The overall scores of the two AI-visibility reports: the differences are
\* -50, -30, -16, -15, 0, 15, 16 and 50.
FirstOverallScore == 50
SecondOverallScores == {0, 20, 34, 35, 50, 65, 66, 100}

VisibilityFactors ==
    {<<>>,
     <<[factor |-> "TL;DR & Summary", score |-> 40, status |-> "fail"],
       [factor |-> "Schema Markup", score |-> 70, status |-> "warning"]>>}

VisibilityReport(overallScore, factors) ==
    [overallScore |-> overallScore, factors |-> factors]

\* The pairs of AI-visibility reports passed: both, or none.
VisibilityPairs ==
    {<<None, None>>} \cup
    {<<Some(VisibilityReport(FirstOverallScore, f1)), Some(VisibilityReport(o2, f2))>> :
        f1 \in VisibilityFactors, f2 \in VisibilityFactors, o2 \in SecondOverallScores}

\* The bodies of the analyze requests: a toggle is absent, true or false.
Toggle(value) == Some(value)
Bodies ==
    {[url |-> u, includeTraditionalSeo |-> t[1], includeGeo |-> t[2],
      includeContentSuggestions |-> t[3]] :
        u \in {"https://example.org/", "example"},
        t \in {<<None, None, None>>,
               <<Toggle(FALSE), Toggle(TRUE), None>>,
               <<None, Toggle(FALSE), Toggle(TRUE)>>,
               <<Toggle(TRUE), None, Toggle(FALSE)>>,
               <<Toggle(FALSE), Toggle(FALSE), Toggle(FALSE)>>}}

\* The pages webScraper.scrapeWebsite may resolve to.
Pages ==
    {EmptyData,
     [EmptyData EXCEPT !.title = Rep("t", 55), !.metaDescription = Rep("m", 155),
                       !.headings = <<[level |-> 1, text |-> "Guide"],
                                      [level |-> 2, text |-> "Why it works"]>>,
                       !.images = <<[src |-> "a.png", alt |-> "a chart", hasAlt |-> TRUE]>>,
                       !.content = "TL;DR since 2024",
                       !.hasSchema = TRUE, !.schemaTypes = <<"Article", "FAQPage">>]}

\* How a call ended: with a return value, or with an exception.
Returned(value) == [threw |-> FALSE, res |-> value]
Thrown == [threw |-> TRUE, res |-> <<>>]

\* The completion of calling the method fn of SeoAnalyzer on data now.
invoke(fn, arg) ==
    CASE fn = "analyzeTraditionalSeo" -> Returned(analyzeTraditionalSeo(data))
      [] fn = "analyzeGeo" -> Returned(analyzeGeo(data))
      [] fn = "analyzeAiPlatformVisibility" ->
            IF analyzeAiPlatformVisibilityThrows(data) THEN Thrown
            ELSE Returned(analyzeAiPlatformVisibility(data))
      [] fn = "generateContentSuggestions" ->
            Returned(generateContentSuggestions(data, arg))

Completed(fn, arg) ==
    LET c == invoke(fn, arg)
    IN  [fn |-> fn, arg |-> arg, threw |-> c.threw, res |-> c.res]

(* The scorers on a WebsiteData that lacks fields.  The methods test       *)
(* nothing before they read: a field that is missing reads as undefined.   *)

\* The TypeError of calling a method on undefined.
TypeErrorReading(property) ==
    [threw |-> TRUE,
     res |-> [name |-> "TypeError",
              message |-> "Cannot read properties of undefined (reading '"
                            \o property \o "')"]]

\* The record the branches see: undefined is falsy where a string or a
\* boolean is tested, and undefined > 3000 is false.
undefinedAsFalsy(d) == d @@ EmptyData

\* analyzeTraditionalSeo on a record whose fields may be missing.
analyzeTraditionalSeoUnvalidated(d) ==
    LET result == analyzeTraditionalSeo(undefinedAsFalsy(d))
        last == Len(result.results)
    IN  IF "headings" \notin DOMAIN d THEN TypeErrorReading("filter")
        ELSE IF "images" \notin DOMAIN d THEN TypeErrorReading("filter")
        ELSE IF undefinedAsFalsy(d).hasSchema /\ "schemaTypes" \notin DOMAIN d
        THEN TypeErrorReading("join")
        ELSE IF "loadTime" \notin DOMAIN d
        THEN Returned([result EXCEPT
                !.results[last].metrics = Some("Load time" :> "undefinedms")])
        ELSE Returned(result)

\* analyzeGeo on a record whose fields may be missing.
analyzeGeoUnvalidated(d) ==
    IF "headings" \notin DOMAIN d THEN TypeErrorReading("some")
    ELSE IF "content" \notin DOMAIN d THEN TypeErrorReading("toLowerCase")
    ELSE Returned(analyzeGeo(undefinedAsFalsy(d)))

\* The fields of WebsiteData.
Fields ==
    {"title", "metaDescription", "headings", "images", "links", "content",
     "hasSchema", "schemaTypes", "loadTime", "wordCount"}

Without(d, field) == [f \in (DOMAIN d) \ {field} |-> d[f]]

\* Pages that violate the data contract: one required field is missing.
MalformedInputs ==
    {Without(d, field) :
        d \in Pages \cup CompareData
                \cup {[EmptyData EXCEPT !.loadTime = 3001],
                      [EmptyData EXCEPT !.title = Rep("t", 30), !.hasSchema = TRUE]},
        field \in Fields}

\* An HTTP request that has not arrived yet.
NotReceived ==
    [pc |-> "idle", kind |-> "none", options |-> <<>>, websiteData |-> <<>>,
     auditReport |-> <<>>, failure |-> "none", response |-> <<>>]

\* new MemStorage(), and no request received.
ServerStarted ==
    /\ reports = <<>>
    /\ currentId = 1
    /\ requests = [r \in 1..MaxRequests |-> NotReceived]

NoCall == [fn |-> "none", arg |-> 0, threw |-> FALSE, res |-> <<>>]

Init ==
    /\ data \in SeoInputs \cup GeoInputs
    /\ year = FirstYear
    /\ call = NoCall
    /\ again = <<>>
    /\ ServerStarted

AnalyzeTraditionalSeo ==
    /\ call = NoCall
    /\ call' = Completed("analyzeTraditionalSeo", 0)
    /\ UNCHANGED <<data, year, again>>
    /\ UNCHANGED serverVars

AnalyzeGeo ==
    /\ call = NoCall
    /\ call' = Completed("analyzeGeo", 0)
    /\ UNCHANGED <<data, year, again>>
    /\ UNCHANGED serverVars

AnalyzeAiPlatformVisibility ==
    /\ call = NoCall
    /\ call' = Completed("analyzeAiPlatformVisibility", 0)
    /\ UNCHANGED <<data, year, again>>
    /\ UNCHANGED serverVars

GenerateContentSuggestions ==
    /\ call = NoCall
    /\ \E aiScore \in AiScores : call' = Completed("generateContentSuggestions", aiScore)
    /\ UNCHANGED <<data, year, again>>
    /\ UNCHANGED serverVars

\* The same method is called again with the same arguments.
Repeat ==
    /\ call # NoCall
    /\ again = <<>>
    /\ again' = <<invoke(call.fn, call.arg)>>
    /\ UNCHANGED <<data, year, call>>
    /\ UNCHANGED serverVars

\* Time passes: the year the clock shows changes.
Tick ==
    /\ year < LastYear
    /\ year' = year + 1
    /\ UNCHANGED <<data, call, again>>
    /\ UNCHANGED serverVars

Next == AnalyzeTraditionalSeo \/ AnalyzeGeo

Spec == Init /\ [][Next]_vars

\* The three scorers of a page, on the inputs of analyzeAiPlatformVisibility.
InitVisibility ==
    /\ data \in VisInputs
    /\ year = FirstYear
    /\ call = NoCall
    /\ again = <<>>
    /\ ServerStarted

NextVisibility == AnalyzeTraditionalSeo \/ AnalyzeGeo \/ AnalyzeAiPlatformVisibility

SpecVisibility == InitVisibility /\ [][NextVisibility]_vars

\* Every scorer called twice on the same input, while time passes.
InitPure ==
    /\ data \in PureInputs
    /\ year = FirstYear
    /\ call = NoCall
    /\ again = <<>>
    /\ ServerStarted

NextPure ==
    \/ AnalyzeTraditionalSeo
    \/ AnalyzeGeo
    \/ AnalyzeAiPlatformVisibility
    \/ GenerateContentSuggestions
    \/ Repeat
    \/ Tick

SpecPure == InitPure /\ [][NextPure]_vars

\* A call of compareWebsites; call.arg holds the six arguments.
CompareWebsites ==
    /\ call.fn = "none"
    /\ \E data1 \in CompareData, data2 \in CompareData,
          seo2 \in SecondSeoScores, ai2 \in SecondAiScores, vis \in VisibilityPairs :
          LET report1 == Report(FirstSeoScore, FirstAiScore)
              report2 == Report(seo2, ai2)
              completion ==
                  IF compareWebsitesThrows(vis[1], vis[2]) THEN Thrown
                  ELSE Returned(compareWebsites(data1, report1, data2, report2, vis[1], vis[2]))
          IN  call' = [fn |-> "compareWebsites",
                       arg |-> [data1 |-> data1, report1 |-> report1,
                                data2 |-> data2, report2 |-> report2,
                                aiVisibility1 |-> vis[1], aiVisibility2 |-> vis[2]],
                       threw |-> completion.threw, res |-> completion.res]
    /\ UNCHANGED <<data, year, again>>
    /\ UNCHANGED serverVars

\* A call of the earlier variant of compareWebsites; call.arg holds the
\* four arguments.
CompareWebsitesEarlier ==
    /\ call.fn = "none"
    /\ \E data1 \in CompareData, data2 \in CompareData,
          seo2 \in SecondSeoScores, ai2 \in SecondAiScores :
          LET report1 == Report(FirstSeoScore, FirstAiScore)
              report2 == Report(seo2, ai2)
          IN  call' = [fn |-> "compareWebsitesEarlier",
                       arg |-> [data1 |-> data1, report1 |-> report1,
                                data2 |-> data2, report2 |-> report2],
                       threw |-> FALSE,
                       res |-> compareWebsitesEarlier(data1, report1, data2, report2)]
    /\ UNCHANGED <<data, year, again>>
    /\ UNCHANGED serverVars

InitCompare ==
    /\ data = EmptyData
    /\ year = FirstYear
    /\ call = NoCall
    /\ again = <<>>
    /\ ServerStarted

NextCompare ==
    \/ CompareWebsites
    \/ CompareWebsitesEarlier

SpecCompare == InitCompare /\ [][NextCompare]_vars

\* POST /api/analyze arrives: the body is parsed and, when it is valid, the
\* scraper is called and awaited; otherwise the catch block answers.
ReceiveAnalyze(r) ==
    /\ requests[r].pc = "idle"
    /\ \E body \in Bodies :
          requests' = [requests EXCEPT ![r] =
              IF parseThrows(body)
              THEN [@ EXCEPT !.pc = "done", !.kind = "analyze",
                             !.failure = "validation",
                             !.response = analysisError("Please enter a valid URL")]
              ELSE [@ EXCEPT !.pc = "scraping", !.kind = "analyze",
                             !.options = parse(body)]]
    /\ UNCHANGED <<data, year, call, again, reports, currentId>>

\* scrapeWebsite resolves: the handler scores the page and calls
\* storage.createAuditReport, which takes the next id and stores the report
\* before the handler waits for it.
ScrapeResolves(r) ==
    /\ requests[r].pc = "scraping"
    /\ \E websiteData \in Pages :
          LET insertReport == insertReportOf(requests[r].options, websiteData)
              id == currentId
              report == storedReport(insertReport, id)
          IN  /\ currentId' = currentId + 1
              /\ reports' = mapSet(reports, id, report)
              /\ requests' = [requests EXCEPT ![r] =
                    [@ EXCEPT !.pc = "storing", !.websiteData = <<websiteData>>,
                              !.auditReport = <<report>>]]
    /\ UNCHANGED <<data, year, call, again>>

\* A handler that takes its id before it scrapes: the rejected scrape has
\* advanced the next id.
ScrapeRejects_idTaken(r) ==
    /\ requests[r].pc = "scraping"
    /\ requests' = [requests EXCEPT ![r] =
          [@ EXCEPT !.pc = "done", !.failure = "scrape",
                    !.response = analysisError("Failed to scrape website")]]
    /\ currentId' = currentId + 1
    /\ UNCHANGED <<data, year, call, again, reports>>

\* scrapeWebsite rejects: the catch block answers.
ScrapeRejects(r) ==
    /\ requests[r].pc = "scraping"
    /\ requests' = [requests EXCEPT ![r] =
          [@ EXCEPT !.pc = "done", !.failure = "scrape",
                    !.response = analysisError("Failed to scrape website")]]
    /\ UNCHANGED <<data, year, call, again, reports, currentId>>

\* The stored report arrives: res.json(auditReport).
RespondAnalyze(r) ==
    /\ requests[r].pc = "storing"
    /\ requests' = [requests EXCEPT ![r] =
          [@ EXCEPT !.pc = "done", !.response = Response(200, requests[r].auditReport[1])]]
    /\ UNCHANGED <<data, year, call, again, reports, currentId>>

\* GET /api/reports/:id
GetReport(r) ==
    /\ requests[r].pc = "idle"
    /\ \E id \in 1..(MaxRequests + 1) :
          LET report == getAuditReport(id)
          IN  requests' = [requests EXCEPT ![r] =
                  [@ EXCEPT !.pc = "done", !.kind = "report", !.options = [id |-> id],
                            !.response =
                                IF report = None
                                THEN Response(404, [message |-> "Report not found"])
                                ELSE Response(200, report[1])]]
    /\ UNCHANGED <<data, year, call, again, reports, currentId>>

\* GET /api/reports
GetReports(r) ==
    /\ requests[r].pc = "idle"
    /\ requests' = [requests EXCEPT ![r] =
          [@ EXCEPT !.pc = "done", !.kind = "reports",
                    !.response = Response(200, getAllAuditReports)]]
    /\ UNCHANGED <<data, year, call, again, reports, currentId>>

\* The storage the handler waits for rejects: the catch block answers.
\* MemStorage.createAuditReport never does; another IStorage may, and then
\* nothing was stored.
StoreRejects(r) ==
    /\ requests[r].pc = "scraping"
    /\ \E websiteData \in Pages :
          requests' = [requests EXCEPT ![r] =
              [@ EXCEPT !.pc = "done", !.websiteData = <<websiteData>>,
                        !.failure = "storage",
                        !.response = analysisError("Failed to store report")]]
    /\ UNCHANGED <<data, year, call, again, reports, currentId>>

InitServer ==
    /\ data = EmptyData
    /\ year = FirstYear
    /\ call = NoCall
    /\ again = <<>>
    /\ ServerStarted

NextServer ==
    \E r \in 1..MaxRequests :
        \/ ReceiveAnalyze(r)
        \/ ScrapeResolves(r)
        \/ ScrapeRejects(r)
        \/ RespondAnalyze(r)
        \/ GetReport(r)
        \/ GetReports(r)

SpecServer == InitServer /\ [][NextServer]_vars

\* The server with a storage that may fail.
NextFailingStorage ==
    \E r \in 1..MaxRequests :
        \/ ReceiveAnalyze(r)
        \/ ScrapeResolves(r)
        \/ ScrapeRejects(r)
        \/ StoreRejects(r)
        \/ RespondAnalyze(r)

SpecFailingStorage == InitServer /\ [][NextFailingStorage]_vars

\* A call of analyzeTraditionalSeo on a page that lacks a field.
AnalyzeTraditionalSeoUnvalidated ==
    /\ call.fn = "none"
    /\ LET completion == analyzeTraditionalSeoUnvalidated(data)
       IN  call' = [fn |-> "analyzeTraditionalSeo", arg |-> 0,
                    threw |-> completion.threw, res |-> completion.res]
    /\ UNCHANGED <<data, year, again>>
    /\ UNCHANGED serverVars

\* A call of analyzeGeo on a page that lacks a field.
AnalyzeGeoUnvalidated ==
    /\ call.fn = "none"
    /\ LET completion == analyzeGeoUnvalidated(data)
       IN  call' = [fn |-> "analyzeGeo", arg |-> 0,
                    threw |-> completion.threw, res |-> completion.res]
    /\ UNCHANGED <<data, year, again>>
    /\ UNCHANGED serverVars

InitMalformed ==
    /\ data \in MalformedInputs
    /\ year = FirstYear
    /\ call = NoCall
    /\ again = <<>>
    /\ ServerStarted

NextMalformed == AnalyzeTraditionalSeoUnvalidated \/ AnalyzeGeoUnvalidated

SpecMalformed == InitMalformed /\ [][NextMalformed]_vars

-----------------------------------------------------------------------------
(* Properties of analyzeTraditionalSeo and analyzeGeo.                     *)

SeoDone == call.fn = "analyzeTraditionalSeo"
GeoDone == call.fn = "analyzeGeo"

\* The findings of kind t among the returned ones.
OfKind(results, t) == {i \in 1..Len(results) : results[i].type = t}
TitlesOfKind(results, t) == {results[i].title : i \in OfKind(results, t)}

\* C1: for every WebsiteData the scores returned by analyzeTraditionalSeo
\* and by analyzeGeo are integers in 0..100.
C1_ScoreInRange ==
    (SeoDone \/ GeoDone) => call.res.score \in 0..100

C1_Witness ==
    /\ GeoDone
    /\ call.res.score = 100
    /\ data.content # ""

\* C2 as claimed: a scorer called twice with identical input returns
\* identical output, whatever happens between the two calls: the result
\* depends on the arguments alone.
C2_SameInputSameOutput ==
    Len(again) = 1 => again[1] = [threw |-> call.threw, res |-> call.res]

\* C3: for every well-formed WebsiteData, the one with empty strings, empty
\* sequences, loadTime 0 and wordCount 0 included, analyzeTraditionalSeo,
\* analyzeGeo and analyzeAiPlatformVisibility each return a result; none
\* ends in an exception.
C3_NoScorerThrows ==
    /\ call.fn \in {"analyzeTraditionalSeo", "analyzeGeo"} =>
          ~call.threw /\ call.res.score \in 0..100
    /\ call.fn = "analyzeAiPlatformVisibility" =>
          ~call.threw /\ Len(call.res.factors) = 12

C3_Witness ==
    /\ call.fn = "analyzeAiPlatformVisibility"
    /\ data = EmptyData
    /\ ~call.threw
    /\ Len(call.res.factors) = 12

\* C4: the title rule: an empty title gives an error finding and 0 points,
\* length 1..29 a warning and +10, length 30..60 (both ends included) a
\* success and +20, length 61 or more a warning and +10.
C4_TitleRule ==
    SeoDone =>
        LET n == Len(data.title)
            f == call.res.results[1]
            pts == titleRule(data).pts
        IN  /\ n = 0 => f.type = "error" /\ f.title = "Missing title tag" /\ pts = 0
            /\ n \in 1..29 => f.type = "warning" /\ f.title = "Title tag too short" /\ pts = 10
            /\ n \in 30..60 => f.type = "success" /\ pts = 20
            /\ n >= 61 => f.type = "warning" /\ f.title = "Title tag too long" /\ pts = 10

C4_Witness ==
    /\ SeoDone
    /\ Len(data.title) = 60
    /\ call.res.results[1].type = "success"

\* C5: the meta-description rule: an empty description gives an error
\* finding and 0 points, length 1..119 a warning and +10, length 120..160
\* (both ends included) a success and +20, length 161 or more a warning
\* and +10.
C5_MetaDescriptionRule ==
    SeoDone =>
        LET n == Len(data.metaDescription)
            f == call.res.results[2]
            pts == metaDescriptionRule(data).pts
        IN  /\ n = 0 => f.type = "error" /\ f.title = "Missing meta description" /\ pts = 0
            /\ n \in 1..119 =>
                  f.type = "warning" /\ f.title = "Meta description too short" /\ pts = 10
            /\ n \in 120..160 => f.type = "success" /\ pts = 20
            /\ n >= 161 =>
                  f.type = "warning" /\ f.title = "Meta description too long" /\ pts = 10

C5_Witness ==
    /\ SeoDone
    /\ Len(data.metaDescription) = 160
    /\ call.res.results[2].type = "success"

\* The number of level-1 headings of the input, counted on the input itself.
LevelOneHeadings == Cardinality({i \in 1..Len(data.headings) : data.headings[i].level = 1})

\* C6: the heading rule depends only on the number n of level-1 headings:
\* n = 0 gives an error finding and 0 points, n = 1 a success and +15,
\* n >= 2 a warning and +10 whose metrics['H1 tags'] is n.
C6_HeadingRule ==
    SeoDone =>
        LET n == LevelOneHeadings
            f == call.res.results[3]
            pts == headingRule(data).pts
        IN  /\ n = 0 => f.type = "error" /\ f.title = "Missing H1 tag" /\ pts = 0
            /\ n = 1 => f.type = "success" /\ f.title = "Proper H1 structure" /\ pts = 15
            /\ n >= 2 =>
                  /\ f.type = "warning"
                  /\ pts = 10
                  /\ f.metrics # None
                  /\ f.metrics[1]["H1 tags"] = n

C6_Witness ==
    /\ SeoDone
    /\ LevelOneHeadings = 2
    /\ Len(data.headings) = 2
    /\ call.res.results[3].type = "warning"

\* C7 as claimed: every rule group appends exactly one finding, so the
\* result always holds exactly six findings.
C7_AlwaysSixFindings ==
    SeoDone => Len(call.res.results) = 6

\* C7, amended: title, meta description, headings, schema and load time
\* each append exactly one finding; the image rule appends one when the
\* page has an image and none when it has no image, so the result holds six
\* findings for a page with images and five for a page without.
C7_SixOrFiveFindings ==
    SeoDone =>
        /\ Len(titleRule(data).results) = 1
        /\ Len(metaDescriptionRule(data).results) = 1
        /\ Len(headingRule(data).results) = 1
        /\ Len(schemaRule(data).results) = 1
        /\ Len(loadTimeRule(data).results) = 1
        /\ Len(imageRule(data).results) = (IF data.images = <<>> THEN 0 ELSE 1)
        /\ Len(call.res.results) = (IF data.images = <<>> THEN 5 ELSE 6)

C7_Witness ==
    /\ SeoDone
    /\ data.images = <<>>
    /\ Len(call.res.results) = 5

\* The number of images of the input whose hasAlt is false.
ImagesLackingAlt == Cardinality({i \in 1..Len(data.images) : ~data.images[i].hasAlt})

ImageFindingTitles == {"Missing alt text on images", "All images have alt text"}

\* C8: the image rule: an image with hasAlt = false gives an error finding
\* and 0 points, with 'Missing alt' the number of such images; otherwise at
\* least one image gives a success finding and +15; zero images give no
\* finding and 0 points.
C8_ImageRule ==
    SeoDone =>
        LET k == ImagesLackingAlt
            rs == call.res.results
            pts == imageRule(data).pts
            imageFindings == {i \in 1..Len(rs) : rs[i].title \in ImageFindingTitles}
        IN  /\ k > 0 =>
                  /\ imageFindings = {4}
                  /\ rs[4].type = "error"
                  /\ rs[4].metrics[1]["Missing alt"] = k
                  /\ pts = 0
            /\ k = 0 /\ Len(data.images) > 0 =>
                  /\ imageFindings = {4}
                  /\ rs[4].type = "success"
                  /\ pts = 15
            /\ Len(data.images) = 0 => imageFindings = {} /\ pts = 0

C8_Witness ==
    /\ SeoDone
    /\ Len(data.images) = 2
    /\ ImagesLackingAlt = 1
    /\ call.res.results[4].type = "error"

\* The input of the end-to-end example: nothing on the page, a slow load.
EmptySlowPage ==
    /\ data.title = ""
    /\ data.metaDescription = ""
    /\ data.headings = <<>>
    /\ data.images = <<>>
    /\ ~data.hasSchema
    /\ data.loadTime = 5000

\* C9 as claimed: the empty slow page scores 0 with three error/warning
\* findings, among them errors for the missing title, meta description and
\* H1 and a warning for the slow load.
C9_ThreeFindings ==
    (SeoDone /\ EmptySlowPage) =>
        LET rs == call.res.results IN
        /\ call.res.score = 0
        /\ Cardinality(OfKind(rs, "error") \cup OfKind(rs, "warning")) = 3
        /\ {"Missing title tag", "Missing meta description", "Missing H1 tag"}
              \subseteq TitlesOfKind(rs, "error")
        /\ "Slow page load time" \in TitlesOfKind(rs, "warning")

\* C9, amended: the empty slow page scores 0 with five findings, all of
\* kind error or warning: three errors (missing title, missing meta
\* description, missing H1) and two warnings (no schema markup, slow load).
C9_FiveFindings ==
    (SeoDone /\ EmptySlowPage) =>
        LET rs == call.res.results IN
        /\ call.res.score = 0
        /\ Len(rs) = 5
        /\ Cardinality(OfKind(rs, "error")) = 3
        /\ Cardinality(OfKind(rs, "warning")) = 2
        /\ TitlesOfKind(rs, "error")
              = {"Missing title tag", "Missing meta description", "Missing H1 tag"}
        /\ TitlesOfKind(rs, "warning") = {"No schema markup found", "Slow page load time"}

C9_Witness ==
    /\ SeoDone
    /\ EmptySlowPage
    /\ call.res.score = 0

\* The contribution of each rule, read off the findings that were returned:
\* the lists of C10 say which values a rule may add.
TitleContributions == {0, 10, 20}
MetaContributions == {0, 10, 20}
HeadingContributions == {0, 10, 15}
ImageContributions == {0, 15}

\* C10: the score is min(sum, 100) of one non-negative contribution per
\* rule (title 0/10/20, meta description 0/10/20, headings 0/10/15, images
\* 0/15, schema 15 iff hasSchema, load time 15 iff loadTime <= 3000); the
\* sum never exceeds 100, so the clamp never changes it.
C10_ScoreIsSum ==
    SeoDone =>
        LET t == titleRule(data).pts
            m == metaDescriptionRule(data).pts
            h == headingRule(data).pts
            i == imageRule(data).pts
            s == schemaRule(data).pts
            l == loadTimeRule(data).pts
            sum == t + m + h + i + s + l
        IN  /\ t \in TitleContributions
            /\ m \in MetaContributions
            /\ h \in HeadingContributions
            /\ i \in ImageContributions
            /\ s = (IF data.hasSchema THEN 15 ELSE 0)
            /\ l = (IF data.loadTime > 3000 THEN 0 ELSE 15)
            /\ sum <= 100
            /\ call.res.score = sum

C10_Witness ==
    /\ SeoDone
    /\ call.res.score = 100
    /\ seoRawScore(data) = 100

-----------------------------------------------------------------------------
(* Properties of analyzeGeo.                                               *)

ContainsAny(s, subs) == \E x \in subs : includes(s, x)

\* A capitalized word: an upper-case letter followed by one or more
\* lower-case letters.
Capitalized(w) ==
    /\ Len(w) >= 2
    /\ isUpper(At(w, 1))
    /\ \A j \in 2..Len(w) : isLower(At(w, j))

\* Two consecutive capitalized words: two of them, whole words both,
\* separated by one space.
TwoCapitalizedWords(s) ==
    \E b \in 2..(Len(s) - 1) :
        /\ At(s, b) = " "
        /\ \E a \in 1..(b - 1) :
              /\ a = 1 \/ ~isWord(At(s, a - 1))
              /\ Capitalized(SubSeq(s, a, b - 1))
        /\ \E c \in (b + 1)..Len(s) :
              /\ c = Len(s) \/ ~isWord(At(s, c + 1))
              /\ Capitalized(SubSeq(s, b + 1, c))

SummaryPhrases == {"tl;dr", "summary", "key takeaways"}
QuestionPhrases == {"what is", "how to", "why"}
YearPhrases == {"2023", "2024"}

\* The five rules of analyzeGeo in the order of their findings: the points
\* of a satisfied rule, the finding type of an unsatisfied one, and the
\* titles its finding may carry.
GeoPoints == <<20, 25, 20, 20, 15>>
GeoUnsatisfied == <<"warning", "error", "warning", "error", "warning">>
GeoTitles ==
    <<{"Content structured with H2 headings", "Poor heading structure for AI"},
      {"Summary content present", "No TL;DR summary found"},
      {"Question-answer format detected", "Limited question-answer format"},
      {"Schema markup enhances AI understanding", "Missing schema markup"},
      {"Good entity and semantic clarity", "Moderate entity and semantic clarity"}>>

\* What C11 says of a result r, given which of the five rules are satisfied.
GeoResultIs(r, satisfied) ==
    /\ Len(r.results) = 5
    /\ \A i \in 1..5 :
          /\ r.results[i].title \in GeoTitles[i]
          /\ r.results[i].type = (IF satisfied[i] THEN "success" ELSE GeoUnsatisfied[i])
    /\ r.score = (IF satisfied[1] THEN GeoPoints[1] ELSE 0)
                    + (IF satisfied[2] THEN GeoPoints[2] ELSE 0)
                    + (IF satisfied[3] THEN GeoPoints[3] ELSE 0)
                    + (IF satisfied[4] THEN GeoPoints[4] ELSE 0)
                    + (IF satisfied[5] THEN GeoPoints[5] ELSE 0)

SomeLevelTwoHeading == \E i \in 1..Len(data.headings) : data.headings[i].level = 2
SomeQuestionHeading == \E i \in 1..Len(data.headings) : includes(data.headings[i].text, "?")
SummaryPresent == ContainsAny(toLowerCase(data.content), SummaryPhrases)
EntitiesPresent ==
    ContainsAny(data.content, YearPhrases) \/ TwoCapitalizedWords(data.content)

\* C11 as claimed: analyzeGeo returns five findings in the order heading
\* structure, summary, question-answer, schema, entity clarity; the score is
\* 20, 25, 20, 20, 15 for the satisfied rules; only the summary phrases are
\* searched case-insensitively, the question phrases 'what is', 'how to',
\* 'why' are searched in the content as it is written.
C11_QuestionPhrasesAsWritten ==
    GeoDone =>
        GeoResultIs(call.res,
            <<SomeLevelTwoHeading,
              SummaryPresent,
              ContainsAny(data.content, QuestionPhrases) \/ SomeQuestionHeading,
              data.hasSchema,
              EntitiesPresent>>)

\* C11 amended: as above, but the question phrases are searched
\* case-insensitively too, like the summary phrases: 'Why' and 'What is'
\* satisfy the question-answer rule.
C11_GeoRules ==
    GeoDone =>
        GeoResultIs(call.res,
            <<SomeLevelTwoHeading,
              SummaryPresent,
              ContainsAny(toLowerCase(data.content), QuestionPhrases) \/ SomeQuestionHeading,
              data.hasSchema,
              EntitiesPresent>>)

\* A page whose only question phrase is capitalized earns the 20 points.
C11_Witness ==
    /\ GeoDone
    /\ data.content = "Why"
    /\ data.headings = <<>>
    /\ ~data.hasSchema
    /\ call.res.score = 20
    /\ call.res.results[3].type = "success"

-----------------------------------------------------------------------------
(* Properties of analyzeAiPlatformVisibility.                              *)

VisibilityDone == call.fn = "analyzeAiPlatformVisibility" /\ ~call.threw

\* The sum of the factor scores of a returned report.
RECURSIVE ScoreSum(_)
ScoreSum(factors) ==
    IF factors = <<>> THEN 0 ELSE Head(factors).score + ScoreSum(Tail(factors))

\* n / d rounded to the nearest integer, a half rounding up.
RoundedQuotient(n, d) == (2 * n + d) \div (2 * d)

\* C12 as claimed: analyzeAiPlatformVisibility returns exactly 12 factors
\* and overallScore equals round(S / 1200 * 100), S being the sum of the 12
\* factor scores of the report; overallScore is an integer in 0..100.
C12_OverallScoreIsRounded ==
    VisibilityDone =>
        LET S == ScoreSum(call.res.factors) IN
        /\ Len(call.res.factors) = 12
        /\ call.res.overallScore = RoundedQuotient(S * 100, 1200)
        /\ call.res.overallScore \in 0..100

\* C13: in every report of analyzeAiPlatformVisibility the status of a
\* factor is a function of its score alone: 'pass' iff score >= 80,
\* 'warning' iff 50 <= score < 80, 'fail' iff score < 50.
C13_StatusFromScore ==
    VisibilityDone =>
        \A i \in 1..Len(call.res.factors) :
            LET f == call.res.factors[i] IN
            /\ f.status \in {"pass", "warning", "fail"}
            /\ f.status = "pass" <=> f.score >= 80
            /\ f.status = "warning" <=> (50 <= f.score /\ f.score < 80)
            /\ f.status = "fail" <=> f.score < 50

\* A report with a factor at each threshold: a pass at exactly 80, a
\* warning at exactly 50, and a fail.
C13_Witness ==
    /\ VisibilityDone
    /\ \E i, j, k \in 1..Len(call.res.factors) :
          /\ call.res.factors[i].score = 80 /\ call.res.factors[i].status = "pass"
          /\ call.res.factors[j].score = 50 /\ call.res.factors[j].status = "warning"
          /\ call.res.factors[k].score < 50 /\ call.res.factors[k].status = "fail"

\* The score of the factor of a given name in a report.
ScoreOf(report, name) ==
    LET i == CHOOSE i \in 1..Len(report.factors) : report.factors[i].factor = name
    IN  report.factors[i].score

\* C14: for every well-formed WebsiteData, empty content and wordCount 0
\* included (where the paragraph average and the complex-word ratio divide
\* by zero), each of the 12 factor scores is an integer in 0..100.
C14_FactorScoresInRange ==
    VisibilityDone =>
        /\ Len(call.res.factors) = 12
        /\ \A i \in 1..12 : call.res.factors[i].score \in 0..100

\* The empty page: both divisions are by zero, and both factors get a score.
C14_Witness ==
    /\ VisibilityDone
    /\ data.content = "" /\ data.wordCount = 0
    /\ ScoreOf(call.res, "Content Scannability") = 10
    /\ ScoreOf(call.res, "Readability Level") = 85

\* The action of the recommendation each factor can give rise to.
FailActions ==
    ("TL;DR & Summary" :> "Add TL;DR Summary Section"
        @@ "Q&A Format" :> "Create FAQ Section"
        @@ "Schema Markup" :> "Implement Structured Data")
WarningActions ==
    ("HTML Structure" :> "Improve Heading Structure"
        @@ "Content Scannability" :> "Break Content into Short Paragraphs")
GenericAction == "Add Current Year References"

\* The positions in recs of the recommendations drawn from the factors
\* whose status is st, by the table actions.
DerivedFrom(report, st, actions) ==
    {i \in 1..Len(report.recommendations) :
        \E k \in 1..Len(report.factors) :
            /\ report.factors[k].status = st
            /\ report.factors[k].factor \in DOMAIN actions
            /\ report.recommendations[i].action = actions[report.factors[k].factor]}

\* C15: the recommendations hold at most 8 entries in generation order:
\* every recommendation derived from a 'fail' factor precedes every one
\* derived from a 'warning' factor, and the generic recommendation 'Add
\* Current Year References', present exactly when overallScore < 70, comes
\* after all of them.
C15_RecommendationOrder ==
    VisibilityDone =>
        LET recs == call.res.recommendations
            fails == DerivedFrom(call.res, "fail", FailActions)
            warnings == DerivedFrom(call.res, "warning", WarningActions)
            generic == {i \in 1..Len(recs) : recs[i].action = GenericAction}
        IN  /\ Len(recs) <= 8
            /\ fails \cup warnings \cup generic = 1..Len(recs)
            /\ \A i \in fails : \A j \in warnings \cup generic : i < j
            /\ \A i \in warnings : \A j \in generic : i < j
            /\ Cardinality(generic) = (IF call.res.overallScore < 70 THEN 1 ELSE 0)
            /\ \A k \in 1..Len(call.res.factors) :
                  LET f == call.res.factors[k] IN
                  /\ (f.status = "fail" /\ f.factor \in DOMAIN FailActions) =>
                        \E i \in fails : recs[i].action = FailActions[f.factor]
                  /\ (f.status = "warning" /\ f.factor \in DOMAIN WarningActions) =>
                        \E i \in warnings : recs[i].action = WarningActions[f.factor]

\* A report with recommendations of all three kinds.
C15_Witness ==
    /\ VisibilityDone
    /\ DerivedFrom(call.res, "fail", FailActions) # {}
    /\ DerivedFrom(call.res, "warning", WarningActions) # {}
    /\ call.res.overallScore < 70
    /\ call.res.recommendations[Len(call.res.recommendations)].action = GenericAction

-----------------------------------------------------------------------------
(* Properties of generateContentSuggestions and generateAiImprovements.    *)

\* generateContentSuggestions returns what generateAiImprovements(data,
\* aiScore) returned in the field aiImprovements; call.arg is aiScore.
SuggestionsDone == call.fn = "generateContentSuggestions" /\ ~call.threw

\* The actions of the four tiers, in generation order.
CriticalTier == <<"Add TL;DR Summary Section", "Create FAQ Schema Markup">>
MediumTier ==
    <<"Improve Content Structure with Clear Headings", "Add \"People Also Ask\" Section",
      "Include Specific Dates and Statistics">>
FineTuningTier == <<"Optimize for Voice Search Queries", "Add Comparison Tables">>
PolishTier ==
    <<"Link to Authoritative Sources", "Add Step-by-Step Instructions",
      "Implement Article Schema">>

Range(seq) == {seq[i] : i \in 1..Len(seq)}
ActionsOf(improvements) == [i \in 1..Len(improvements) |-> improvements[i].action]

\* The unlocked items for a score, in generation order.
Unlocked(aiScore) ==
    (IF aiScore < 50 THEN CriticalTier ELSE <<>>)
    \o (IF aiScore < 75 THEN MediumTier ELSE <<>>)
    \o (IF aiScore < 85 THEN FineTuningTier ELSE <<>>)
    \o (IF aiScore >= 85 THEN PolishTier ELSE <<>>)

C17_ScoresThirtyAndNinety ==
    SuggestionsDone =>
        LET actions == Range(ActionsOf(call.res.aiImprovements)) IN
        /\ call.arg = 30 =>
              /\ Range(CriticalTier) \subseteq actions
              /\ Len(call.res.aiImprovements) <= 6
        /\ call.arg = 90 =>
              /\ actions \cap (Range(CriticalTier) \cup Range(MediumTier)
                                  \cup Range(FineTuningTier)) = {}
              /\ actions \cap Range(PolishTier) # {}
              /\ Len(call.res.aiImprovements) <= 6

C17_Witness ==
    /\ SuggestionsDone
    /\ call.arg = 90
    /\ Len(call.res.aiImprovements) = 3
    /\ call.res.aiImprovements[1].action = "Link to Authoritative Sources"

-----------------------------------------------------------------------------
(* Properties of compareWebsites.                                          *)

\* compareWebsites returned, having been given both AI-visibility reports.
ComparedWithVisibility == call.fn = "compareWebsites" /\ ~call.threw
\* The earlier variant, which takes no AI-visibility reports, returned.
ComparedEarlier == call.fn = "compareWebsitesEarlier" /\ ~call.threw

Distance(a, b) == IF a < b THEN b - a ELSE a - b
CategoriesOf(keyDifferences) ==
    {keyDifferences[i].category : i \in 1..Len(keyDifferences)}

\* C18: given both AI-visibility reports, seoScoreDiff = report2.seoScore -
\* report1.seoScore, aiScoreDiff = report2.aiScore - report1.aiScore,
\* aiVisibilityDiff = aiVisibility2.overallScore - aiVisibility1.overallScore,
\* and betterPerformer is 'url2' iff the three differences sum to more than
\* 0 and 'url1' otherwise: a sum of exactly 0 gives 'url1'.
C18_DifferencesAndBetterPerformer ==
    ComparedWithVisibility =>
        LET a == call.arg
            r == call.res
            sum == r.seoScoreDiff + r.aiScoreDiff + r.aiVisibilityDiff
        IN  /\ r.seoScoreDiff = a.report2.seoScore - a.report1.seoScore
            /\ r.aiScoreDiff = a.report2.aiScore - a.report1.aiScore
            /\ r.aiVisibilityDiff
                  = a.aiVisibility2[1].overallScore - a.aiVisibility1[1].overallScore
            /\ r.betterPerformer \in {"url1", "url2"}
            /\ r.betterPerformer = "url2" <=> sum > 0
            /\ sum = 0 => r.betterPerformer = "url1"

\* Differences that are not all 0 and sum to exactly 0.
C18_Witness ==
    /\ ComparedWithVisibility
    /\ call.res.seoScoreDiff = 15
    /\ call.res.aiScoreDiff = 15
    /\ call.res.aiVisibilityDiff = 0 - 30
    /\ call.res.betterPerformer = "url1"

\* C19: keyDifferences has entries of category 'seo' iff |seoScoreDiff| >
\* 10, of category 'ai' iff |aiScoreDiff| > 10, and of category
\* 'visibility' iff |aiVisibilityDiff| > 15 (the earlier variant has no
\* AI-visibility difference and no such entries); the thresholds are
\* strict, and when none is exceeded keyDifferences is empty.
C19_KeyDifferenceThresholds ==
    (ComparedWithVisibility \/ ComparedEarlier) =>
        LET a == call.arg
            categories == CategoriesOf(call.res.keyDifferences)
            seoApart == Distance(a.report1.seoScore, a.report2.seoScore) > 10
            aiApart == Distance(a.report1.aiScore, a.report2.aiScore) > 10
            visibilityApart ==
                /\ ComparedWithVisibility
                /\ Distance(a.aiVisibility1[1].overallScore,
                            a.aiVisibility2[1].overallScore) > 15
        IN  /\ categories \subseteq {"seo", "ai", "visibility"}
            /\ "seo" \in categories <=> seoApart
            /\ "ai" \in categories <=> aiApart
            /\ "visibility" \in categories <=> visibilityApart
            /\ ~(seoApart \/ aiApart \/ visibilityApart) => call.res.keyDifferences = <<>>

\* Every difference exactly at its threshold: no entry.
C19_Witness ==
    /\ ComparedWithVisibility
    /\ call.res.seoScoreDiff = 10
    /\ call.res.aiScoreDiff = 0 - 10
    /\ call.res.aiVisibilityDiff = 15
    /\ call.res.keyDifferences = <<>>

\* The reports of the end-to-end example: 70/40 against 85/55.
ExampleReports ==
    /\ call.arg.report1 = [seoScore |-> 70, aiScore |-> 40]
    /\ call.arg.report2 = [seoScore |-> 85, aiScore |-> 55]

-----------------------------------------------------------------------------
(* Properties of the routes and of MemStorage.                             *)

\* The analyze requests whose report was built: scraped, scored and stored.
Stored(r) == requests[r].kind = "analyze" /\ requests[r].auditReport # <<>>

AllLow(labels) ==
    /\ labels.chatgpt = "low"
    /\ labels.perplexity = "low"
    /\ labels.claude = "low"
    /\ labels.bard = "low"

\* C21: in the analyze request a toggle the body leaves out is true; an
\* analysis whose toggle is false is replaced by its default (score 0 and no
\* findings for the two scorers, empty suggestion lists with every platform
\* label 'low' for the suggestions), and a scorer whose toggle is true has
\* exactly its score and its findings stored.
C21_TogglesAndDefaults ==
    /\ \A body \in Bodies :
          ~parseThrows(body) =>
              /\ body.includeTraditionalSeo = None => parse(body).includeTraditionalSeo
              /\ body.includeGeo = None => parse(body).includeGeo
              /\ body.includeContentSuggestions = None => parse(body).includeContentSuggestions
    /\ \A r \in 1..MaxRequests :
          Stored(r) =>
              LET options == requests[r].options
                  websiteData == requests[r].websiteData[1]
                  report == requests[r].auditReport[1]
                  suggestions == report.contentSuggestions
              IN  /\ IF options.includeTraditionalSeo
                     THEN /\ report.seoScore = analyzeTraditionalSeo(websiteData).score
                          /\ report.traditionalSeoResults =
                                analyzeTraditionalSeo(websiteData).results
                     ELSE report.seoScore = 0 /\ report.traditionalSeoResults = <<>>
                  /\ IF options.includeGeo
                     THEN /\ report.aiScore = analyzeGeo(websiteData).score
                          /\ report.geoResults = analyzeGeo(websiteData).results
                     ELSE report.aiScore = 0 /\ report.geoResults = <<>>
                  /\ ~options.includeContentSuggestions =>
                        /\ suggestions.missingKeywords = <<>>
                        /\ suggestions.blogTitles = <<>>
                        /\ suggestions.contentStructure = <<>>
                        /\ suggestions.faqs = <<>>
                        /\ AllLow(suggestions.aiVisibility)

\* A page with findings was analysed with the traditional scorer switched
\* off and the other two left at their default, and the report was sent.
C21_Witness ==
    \E r \in 1..MaxRequests :
        /\ Stored(r)
        /\ requests[r].pc = "done"
        /\ requests[r].response[1].status = 200
        /\ ~requests[r].options.includeTraditionalSeo
        /\ requests[r].options.includeGeo
        /\ requests[r].websiteData[1] # EmptyData
        /\ requests[r].response[1].body.aiScore > 0
        /\ requests[r].response[1].body.seoScore = 0

\* C22: a scrape failure and a storage failure of an analyze request are
\* answered with different HTTP statuses.
C22_DistinctErrorKinds ==
    \A r1, r2 \in 1..MaxRequests :
        requests[r1].failure = "scrape" /\ requests[r2].failure = "storage" =>
            requests[r1].response[1].status # requests[r2].response[1].status

\* C23: every factor of the report whose status is 'fail' has a
\* recommendation of priority 'high', generated for that factor, among the
\* recommendations before the cap.
C23_EveryFailRemediated ==
    VisibilityDone =>
        LET factors == call.res.factors
            recs == allAiVisibilityRecommendations(factors, call.res.overallScore)
        IN  \A k \in 1..Len(factors) :
                factors[k].status = "fail" =>
                    \E i \in 1..Len(recs) :
                        /\ recs[i].priority = "high"
                        /\ <<recs[i]>> = failRecommendation(factors[k])

\* A call of compareWebsites that passes no AI-visibility report.
CalledWithoutVisibility ==
    \/ call.fn = "compareWebsitesEarlier"
    \/ /\ call.fn = "compareWebsites"
       /\ call.arg.aiVisibility1 = None
       /\ call.arg.aiVisibility2 = None

\* C24: compareWebsites called without AI-visibility reports returns a
\* result whose betterPerformer is 'url2' iff seoScoreDiff + aiScoreDiff > 0
\* and 'url1' otherwise.
C24_WithoutVisibilityReports ==
    CalledWithoutVisibility =>
        /\ ~call.threw
        /\ call.res.seoScoreDiff = call.arg.report2.seoScore - call.arg.report1.seoScore
        /\ call.res.aiScoreDiff = call.arg.report2.aiScore - call.arg.report1.aiScore
        /\ call.res.betterPerformer =
              (IF call.res.seoScoreDiff + call.res.aiScoreDiff > 0 THEN "url2" ELSE "url1")

-----------------------------------------------------------------------------
(* Properties of the scorers on malformed input.                           *)

\* A scorer was called on a page that lacks a required field.
ScoredMalformed ==
    /\ call.fn \in {"analyzeTraditionalSeo", "analyzeGeo"}
    /\ DOMAIN data # Fields

\* C26: a scorer given a WebsiteData that lacks a required field throws a
\* validation error that names the missing field; it returns no score.
C26_MalformedInputRejected ==
    ScoredMalformed =>
        /\ call.threw
        /\ call.res.name = "ValidationError"
        /\ \A field \in Fields \ DOMAIN data : includes(call.res.message, field)

\* The reports of MemStorage are numbered 1, 2, 3, ... in creation order,
\* and getAuditReport finds each of them and nothing else.
StoreNumbered ==
    /\ currentId = Len(reports) + 1
    /\ \A i \in 1..Len(reports) :
          /\ reports[i].key = i
          /\ reports[i].value.id = i
          /\ getAuditReport(i) = Some(reports[i].value)
    /\ \A i, j \in 1..Len(reports) : reports[i].key = reports[j].key => i = j
    /\ \A id \in (0..(MaxRequests + 1)) \ (1..Len(reports)) : getAuditReport(id) = None
    /\ \A r \in 1..MaxRequests :
          Stored(r) =>
              getAuditReport(requests[r].auditReport[1].id) = requests[r].auditReport

\* A step keeps every report the store already holds, under its id.
StoreKept ==
    /\ Len(reports') >= Len(reports)
    /\ \A i \in 1..Len(reports) : reports'[i] = reports[i]

\* C27: after any interleaving of concurrent analyze requests the reports of
\* MemStorage have pairwise distinct ids, which are 1, 2, 3, ... without
\* gaps in creation order; getAuditReport(id) returns exactly the report
\* created with that id and undefined for an id never assigned; and no later
\* create changes or removes an earlier report.
C27_IdsUnderInterleaving == []StoreNumbered /\ [][StoreKept]_vars

\* Two analyze requests overlapped: the one received in the second slot was
\* stored first, and both reports are in the store.
C27_Witness ==
    /\ Stored(1) /\ Stored(2)
    /\ requests[1].auditReport[1].id = 2
    /\ requests[2].auditReport[1].id = 1
    /\ requests[1].auditReport[1] # requests[2].auditReport[1]
    /\ Len(reports) = 2
    /\ requests[2].pc = "storing"

\* The analyze requests that failed at validation or at scraping.
Failed(r) == requests[r].failure \in {"validation", "scrape"}

\* A failed request holds no report and was answered with an error; the
\* store holds one report for each request that was scraped and scored.
FailedStoredNothing ==
    /\ \A r \in 1..MaxRequests :
          Failed(r) =>
              /\ requests[r].auditReport = <<>>
              /\ requests[r].pc = "done"
              /\ requests[r].response[1].status = 400
              /\ DOMAIN requests[r].response[1].body = {"message"}
    /\ Len(reports) = Cardinality({r \in 1..MaxRequests : Stored(r)})
    /\ currentId = 1 + Cardinality({r \in 1..MaxRequests : Stored(r)})

\* The step in which a request fails changes neither the reports nor the
\* next id; the store changes only in the step of a request whose scrape
\* has resolved, by the report scored from the scraped page.
FailureFrame ==
    /\ (\E r \in 1..MaxRequests : Failed(r)' /\ ~Failed(r)) =>
          reports' = reports /\ currentId' = currentId
    /\ (reports' # reports \/ currentId' # currentId) =>
          \E r \in 1..MaxRequests :
              /\ requests[r].pc = "scraping"
              /\ requests'[r].websiteData # <<>>
              /\ reports' = Append(reports,
                    [key |-> currentId,
                     value |-> storedReport(
                        insertReportOf(requests[r].options, requests'[r].websiteData[1]),
                        currentId)])
              /\ currentId' = currentId + 1

\* C28: an analyze request that fails at validation or at scraping leaves
\* the report store unchanged (no report created, the next id not advanced)
\* and ends with an error response instead of a report; a report is stored
\* only after scraping and scoring have completed.
C28_FailureLeavesStore == []FailedStoredNothing /\ [][FailureFrame]_vars

\* One request was rejected for its url and another for its scrape: the
\* store is still empty and the next id is still 1.
C28_Witness ==
    /\ \E r1, r2 \in 1..MaxRequests :
          /\ requests[r1].failure = "validation"
          /\ requests[r2].failure = "scrape"
    /\ reports = <<>>
    /\ currentId = 1

-----------------------------------------------------------------------------
(* Further properties of analyzeTraditionalSeo and compareWebsites.        *)

\* C29: analyzeTraditionalSeo returns score 100 iff its result holds six
\* findings that are all of kind success; a page with zero images never
\* scores more than 85.
C29_FullScoreIffSixSuccesses ==
    SeoDone =>
        LET results == call.res.results
        IN  /\ call.res.score = 100 <=>
                  /\ Len(results) = 6
                  /\ \A i \in 1..Len(results) : results[i].type = "success"
            /\ data.images = <<>> => call.res.score <= 85

\* A page without images and with nothing else to blame: five successes
\* and the score 85.
C29_Witness ==
    /\ SeoDone
    /\ data.images = <<>>
    /\ call.res.score = 85
    /\ Len(call.res.results) = 5
    /\ \A i \in 1..5 : call.res.results[i].type = "success"

\* The result of the same comparison with the two sites swapped.
Swapped ==
    LET a == call.arg
    IN  compareWebsites(a.data2, a.report2, a.data1, a.report1,
                        a.aiVisibility2, a.aiVisibility1)

\* C30: swapping the two sites in compareWebsites negates seoScoreDiff,
\* aiScoreDiff and aiVisibilityDiff and leaves the set of keyDifferences
\* categories unchanged; betterPerformer flips between 'url1' and 'url2'
\* when the three differences sum to a non-zero value, and is 'url1' in
\* both orders when they sum to exactly 0.
C30_SwapSymmetry ==
    ComparedWithVisibility =>
        LET r == call.res
            sum == r.seoScoreDiff + r.aiScoreDiff + r.aiVisibilityDiff
        IN  /\ Swapped.seoScoreDiff = 0 - r.seoScoreDiff
            /\ Swapped.aiScoreDiff = 0 - r.aiScoreDiff
            /\ Swapped.aiVisibilityDiff = 0 - r.aiVisibilityDiff
            /\ CategoriesOf(Swapped.keyDifferences) = CategoriesOf(r.keyDifferences)
            /\ sum # 0 =>
                  /\ Swapped.betterPerformer # r.betterPerformer
                  /\ {Swapped.betterPerformer, r.betterPerformer} = {"url1", "url2"}
            /\ sum = 0 => Swapped.betterPerformer = "url1" /\ r.betterPerformer = "url1"

\* The second site is behind on the SEO score by more than 10 and ahead on
\* the AI score, the differences sum to 0, and the pages differ.
C30_Witness ==
    /\ ComparedWithVisibility
    /\ call.arg.data1 # call.arg.data2
    /\ call.res.seoScoreDiff < 0 - 10
    /\ call.res.seoScoreDiff + call.res.aiScoreDiff + call.res.aiVisibilityDiff = 0
    /\ "seo" \in CategoriesOf(Swapped.keyDifferences)
    /\ Swapped.betterPerformer = "url1"

=============================================================================
